---- MODULE Spec2Model ----
(***************************************************************************)
(* A model of gmc (Go mod create), src/cli/cli.go.                         *)
(*                                                                         *)
(* Strings the program takes apart (module identifiers, paths, the remote  *)
(* URL, file contents) are sequences of fragments: "/" is the path         *)
(* separator, ":" the separator of the remote URL, "\n" a line break, and  *)
(* every other fragment is a piece of text holding none of these.          *)
(* Concatenation of strings is \o.                                         *)
(*                                                                         *)
(* The file system of the working directory is the function fs from the    *)
(* paths that exist to their entries; git holds the state of the           *)
(* repositories that `git init` created, keyed by workspace directory.     *)
(* proc[p] holds the arguments, the local variables and the position of    *)
(* one process running the program, with the narration it wrote and the    *)
(* log of the file-system and external-tool calls it made (ops) and the    *)
(* entries those calls created (made).  errorOutput is what it wrote to    *)
(* the error stream, exited and exitCode the call of the exit code handler.*)
(***************************************************************************)
EXTENDS Integers, Sequences, FiniteSets, TLC

VARIABLES fs, git, proc, runs

vars == <<fs, git, proc, runs>>

\* ---------------------------------------------------------------- bounds

\* number of program runs in one behaviour
MaxRuns == 2

\* how often the --nova flag may be repeated on one command line
MaxFlagRepeat == 2

\* processes that may run the program; Spec runs them one after another
Procs == {1}

\* module identifiers given on the command line
ModuleIds ==
  { <<"github.com", "/", "foo", "/", "bar">>,
    <<"example.com", "/", "foo", "/", "bar">>,
    <<"example.com", "/", "github.com", "/", "bar">>,
    <<"main.go">> }

\* command lines: zero, one or two module names
ArgLists ==
  {<<>>} \cup { <<m>> : m \in ModuleIds } \cup { <<<<"main.go">>, <<"main.go">>>> }

\* ---------------------------------------------------------------- strings

Sep == "/"

RECURSIVE StripTrailingSep(_)
StripTrailingSep(s) ==
  IF s # <<>> /\ s[Len(s)] = Sep
    THEN StripTrailingSep(SubSeq(s, 1, Len(s) - 1))
    ELSE s

\* index of the last separator of s, 0 when there is none
LastSep(s) ==
  LET idx == { i \in 1..Len(s) : s[i] = Sep }
  IN IF idx = {} THEN 0 ELSE CHOOSE i \in idx : \A j \in idx : j <= i

\* index of the first separator of s, 0 when there is none
FirstSep(s) ==
  LET idx == { i \in 1..Len(s) : s[i] = Sep }
  IN IF idx = {} THEN 0 ELSE CHOOSE i \in idx : \A j \in idx : i <= j

\* filepath.Base
Base(s) ==
  IF s = <<>> THEN <<".">>
  ELSE LET t == StripTrailingSep(s)
       IN IF t = <<>> THEN <<Sep>>
          ELSE SubSeq(t, LastSep(t) + 1, Len(t))

\* filepath.Dir of a clean relative path
Dir(s) ==
  IF LastSep(s) = 0 THEN <<".">> ELSE SubSeq(s, 1, LastSep(s) - 1)

\* filepath.Join of two non-empty clean paths
Join(a, b) == a \o <<Sep>> \o b

\* strings.Replace with n = -1: every separator becomes ":"
ReplaceFirstSep_All(s) == [i \in 1..Len(s) |-> IF s[i] = Sep THEN ":" ELSE s[i]]

\* strings.Replace(s, "/", ":", 1)
ReplaceFirstSep(s) ==
  LET i == FirstSep(s)
  IN IF i = 0 THEN s ELSE [s EXCEPT ![i] = ":"]

\* strings.TrimPrefix(filePath, filePathPrefix + separator)
withoutFilepathPrefix(filePath, filePathPrefix) ==
  LET pre == filePathPrefix \o <<Sep>>
  IN IF Len(filePath) >= Len(pre) /\ SubSeq(filePath, 1, Len(pre)) = pre
       THEN SubSeq(filePath, Len(pre) + 1, Len(filePath))
       ELSE filePath

\* is path p the directory d itself or below it
Under(p, d) ==
  \/ p = d
  \/ Len(p) > Len(d) /\ SubSeq(p, 1, Len(d) + 1) = d \o <<Sep>>

\* ---------------------------------------------------------------- template store

assetsDir == <<"assets">>
assetsDefaultDir == <<"default">>
novaDir == <<"nova">>

\* the embedded assets, each set in the order fs.WalkDir visits it
\* (lexical, a directory before its children), the root left out
assets ==
  [ default |->
      << [path |-> <<"assets", "/", "default", "/", "main.go">>,
          isDir |-> FALSE, content |-> <<"mainGoContents">>] >>,
    nova |->
      << [path |-> <<"assets", "/", "nova", "/", ".nova">>,
          isDir |-> TRUE, content |-> <<>>],
         [path |-> <<"assets", "/", "nova", "/", ".nova", "/", "Tasks">>,
          isDir |-> TRUE, content |-> <<>>],
         [path |-> <<"assets", "/", "nova", "/", ".nova", "/", "Tasks", "/", "Go.json">>,
          isDir |-> FALSE, content |-> <<"novaTaskContents">>] >> ]

\* a walk from assetsDir instead of srcRoot: every set is visited
WalkDir_All(src) == assets.default \o assets.nova

\* a walk that visits the entries of a directory before the directory itself
WalkDir_ChildrenFirst(src) ==
  LET w == IF src = novaDir THEN assets.nova ELSE assets.default
  IN [i \in 1..Len(w) |-> w[Len(w) + 1 - i]]

\* the entries fs.WalkDir hands to the callback for srcRoot, after the root
\* the permission bits an entry of the embedded store reports (fs.FileInfo.Mode
\* of an embed.FS entry): read-only files, read-only searchable directories
embedMode(e) == IF e.isDir THEN "0555" ELSE "0444"

WalkDir(src) == IF src = novaDir THEN assets.nova ELSE assets.default

gitignoreFileName == <<".gitignore">>
readmeFileName == <<"README.md">>
goModFileName == <<"go.mod">>
gitDirName == <<".git">>

\* ---------------------------------------------------------------- file system

dirEntry == [kind |-> "dir", perm |-> "0755", content |-> <<>>]

fileEntry(bytes, perm) == [kind |-> "file", perm |-> perm, content |-> bytes]

Exists(f, path) == path \in DOMAIN f

IsDirAt(f, path) == Exists(f, path) /\ f[path].kind = "dir"

Put(f, path, entry) ==
  [q \in DOMAIN f \cup {path} |-> IF q = path THEN entry ELSE f[q]]

\* os.MkdirAll in place of os.Mkdir: an existing directory is no error
MkdirCanSucceed_All(f, path) ==
  (~Exists(f, path) \/ IsDirAt(f, path)) /\ IsDirAt(f, Dir(path))

\* os.Mkdir can succeed only when the path is free and its parent is a directory
MkdirCanSucceed(f, path) == ~Exists(f, path) /\ IsDirAt(f, Dir(path))

\* os.WriteFile can succeed only when the path is not a directory and its parent is one
WriteFileCanSucceed(f, path) == ~IsDirAt(f, path) /\ IsDirAt(f, Dir(path))

\* the entries of the working directory at and below directory d
Tree(f, d) == { q \in DOMAIN f : Under(q, d) }

\* ---------------------------------------------------------------- narration

\* flogf that writes whether or not quiet is set
flogf_IgnoreQuiet(output, quiet, line) == Append(output, line)

\* flogf / flogln: nothing is written when quiet is set
flogf(output, quiet, line) == IF quiet THEN output ELSE Append(output, line)

reportCreatedAtPath(output, quiet, fileType, filePath) ==
  flogf(output, quiet, <<"- Created ", fileType, ": ">> \o filePath)

\* reportCreatedDir that narrates nothing: directories are created unmentioned
reportCreatedDir_Silent(output, quiet, filePath) == output

reportCreatedDir(output, quiet, filePath) ==
  reportCreatedAtPath(output, quiet, "directory", filePath)

\* a file reported with the kind of a directory
reportCreatedFile_AsDirectory(output, quiet, filePath) ==
  reportCreatedAtPath(output, quiet, "directory", filePath)

reportCreatedFile(output, quiet, filePath) ==
  reportCreatedAtPath(output, quiet, "file     ", filePath)

\* ---------------------------------------------------------------- state

idleProc ==
  [ pc |-> "idle", args |-> <<>>, novaFlags |-> 0, made |-> << >>,
    module |-> <<>>, moduleBase |-> <<>>, repo |-> FALSE, extraDirs |-> <<>>,
    quiet |-> FALSE, set |-> 0, entry |-> 0, gitUrl |-> <<>>,
    nextSteps |-> <<>>, output |-> <<>>, ops |-> <<>>, err |-> <<>>,
    failedAt |-> "none", help |-> FALSE, editorEnv |-> "",
    errorOutput |-> <<>>, exited |-> FALSE, exitCode |-> 0 ]

Init ==
  /\ fs = [q \in {<<".">>, <<Sep>>} |-> dirEntry]
  /\ git = << >>
  /\ proc = [p \in Procs |-> idleProc]
  /\ runs = 0

\* a record of one file-system or external-tool call
Op(name, arg, ok) == [op |-> name, arg |-> arg, ok |-> ok]

\* Fail that also sets the help flag, as the usage errors do
Fail_WithHelp(pr, step, e, op) ==
  [pr EXCEPT !.pc = "failed", !.failedAt = step, !.err = e, !.ops = Append(@, op),
             !.help = TRUE]

Fail(pr, step, e, op) ==
  [pr EXCEPT !.pc = "failed", !.failedAt = step, !.err = e,
             !.ops = Append(@, op)]

\* ---------------------------------------------------------------- App.Action

\* the nova set deployed whether or not the flag is given
ExtraDirs_Always(novaFlags) == <<novaDir>>

\* one extra set per occurrence of the flag
ExtraDirs_PerFlag(novaFlags) == [i \in 1..novaFlags |-> novaDir]

\* the extra template sets the flags ask for: c.Bool("nova") is true however
\* often the flag is given
ExtraDirs(novaFlags) == IF novaFlags > 0 THEN <<novaDir>> ELSE <<>>

\* the Action of the app: argument checks, flag parsing, and the first
\* narration line of createModule
Action(p) ==
  /\ proc[p].pc = "idle" \/ proc[p].exited
  /\ runs < MaxRuns
  /\ \E args \in ArgLists, g \in BOOLEAN, n \in 0..MaxFlagRepeat, q \in BOOLEAN :
       LET fresh == [idleProc EXCEPT !.args = args, !.novaFlags = n, !.quiet = q]
       IN proc' = [proc EXCEPT ![p] =
            IF Len(args) < 1
              THEN [fresh EXCEPT !.pc = "failed", !.failedAt = "usage", !.help = TRUE,
                                 !.err = <<"Error: Module name is required">>]
            ELSE IF Len(args) > 1
              THEN [fresh EXCEPT !.pc = "failed", !.failedAt = "usage", !.help = TRUE,
                                 !.err = <<"Error: Only one module name is allowed">>]
            ELSE [fresh EXCEPT
                    !.pc = "mkdir",
                    !.module = args[1],
                    !.moduleBase = Base(args[1]),
                    !.repo = g,
                    !.extraDirs = ExtraDirs(n),
                    !.output = flogf(<<>>, q, <<"Creating Go module: ">> \o args[1])]]
  /\ runs' = runs + 1
  /\ UNCHANGED <<fs, git>>

\* OnUsageError whose error is dropped when a module name is given: the run
\* goes on to createModule
OnUsageError_GoesOn(p) ==
  /\ proc[p].pc = "idle" \/ proc[p].exited
  /\ runs < MaxRuns
  /\ \E args \in ArgLists, q \in BOOLEAN :
       proc' = [proc EXCEPT ![p] =
         IF Len(args) = 1
           THEN [idleProc EXCEPT !.args = args, !.quiet = q, !.help = TRUE,
                                 !.err = <<"Error: Unknown flag">>,
                                 !.pc = "mkdir", !.module = args[1],
                                 !.moduleBase = Base(args[1])]
           ELSE [idleProc EXCEPT !.args = args, !.quiet = q,
                                 !.pc = "failed", !.failedAt = "usage", !.help = TRUE,
                                 !.err = <<"Error: Unknown flag">>]]
  /\ runs' = runs + 1
  /\ UNCHANGED <<fs, git>>

\* OnUsageError: the command line holds a flag the app does not know; quiet is
\* set when -q stood before that flag, and the Action is not run
OnUsageError(p) ==
  /\ proc[p].pc = "idle" \/ proc[p].exited
  /\ runs < MaxRuns
  /\ \E args \in ArgLists, q \in BOOLEAN :
       proc' = [proc EXCEPT ![p] =
         [idleProc EXCEPT !.args = args, !.quiet = q,
                          !.pc = "failed", !.failedAt = "usage", !.help = TRUE,
                          !.err = <<"Error: Unknown flag">>]]
  /\ runs' = runs + 1
  /\ UNCHANGED <<fs, git>>

\* the text cli.ShowAppHelp writes
helpOutput == <<"helpOutput">>

\* ExitErrHandler without the test of err against nil: the error line is
\* written after a success too
ExitErrHandler_NoNilCheck(p) ==
  LET pr == proc[p] IN
  /\ pr.pc \in {"done", "failed"}
  /\ ~pr.exited
  /\ proc' = [proc EXCEPT ![p] =
       [pr EXCEPT
          !.errorOutput =
            IF pr.help
              THEN flogf(flogf(@, pr.quiet, pr.err), pr.quiet, <<"">>)
              ELSE flogf(@, pr.quiet, pr.err),
          !.output = IF pr.help /\ ~pr.quiet THEN Append(@, helpOutput) ELSE @,
          !.exited = TRUE,
          !.exitCode = IF pr.pc = "failed" THEN 1 ELSE 0]]
  /\ UNCHANGED <<fs, git, runs>>

\* ExitErrHandler that reports exit code 1 only together with the help
ExitErrHandler_CodeWithHelp(p) ==
  LET pr == proc[p] IN
  /\ pr.pc \in {"done", "failed"}
  /\ ~pr.exited
  /\ proc' = [proc EXCEPT ![p] =
       IF pr.pc = "failed"
         THEN [pr EXCEPT
                 !.errorOutput =
                   IF pr.help
                     THEN flogf(flogf(@, pr.quiet, pr.err), pr.quiet, <<"">>)
                     ELSE flogf(@, pr.quiet, pr.err),
                 !.output = IF pr.help /\ ~pr.quiet THEN Append(@, helpOutput) ELSE @,
                 !.exited = TRUE,
                 !.exitCode = IF pr.help THEN 1 ELSE 0]
         ELSE [pr EXCEPT !.exited = TRUE, !.exitCode = 0]]
  /\ UNCHANGED <<fs, git, runs>>

\* ExitErrHandler that shows the help after a usage error without looking at quiet
ExitErrHandler_HelpWhenQuiet(p) ==
  LET pr == proc[p] IN
  /\ pr.pc \in {"done", "failed"}
  /\ ~pr.exited
  /\ proc' = [proc EXCEPT ![p] =
       IF pr.pc = "failed"
         THEN [pr EXCEPT
                 !.errorOutput =
                   IF pr.help
                     THEN flogf(flogf(@, pr.quiet, pr.err), pr.quiet, <<"">>)
                     ELSE flogf(@, pr.quiet, pr.err),
                 !.output = IF pr.help THEN Append(@, helpOutput) ELSE @,
                 !.exited = TRUE,
                 !.exitCode = 1]
         ELSE [pr EXCEPT !.exited = TRUE, !.exitCode = 0]]
  /\ UNCHANGED <<fs, git, runs>>

\* ExitErrHandler that writes the error line whether or not quiet is set
ExitErrHandler_AlwaysReport(p) ==
  LET pr == proc[p] IN
  /\ pr.pc \in {"done", "failed"}
  /\ ~pr.exited
  /\ proc' = [proc EXCEPT ![p] =
       IF pr.pc = "failed"
         THEN [pr EXCEPT
                 !.errorOutput =
                   IF pr.help
                     THEN flogf(Append(@, pr.err), pr.quiet, <<"">>)
                     ELSE Append(@, pr.err),
                 !.output = IF pr.help /\ ~pr.quiet THEN Append(@, helpOutput) ELSE @,
                 !.exited = TRUE,
                 !.exitCode = 1]
         ELSE [pr EXCEPT !.exited = TRUE, !.exitCode = 0]]
  /\ UNCHANGED <<fs, git, runs>>

\* ExitErrHandler, called with the error of the Action or of OnUsageError
ExitErrHandler(p) ==
  LET pr == proc[p] IN
  /\ pr.pc \in {"done", "failed"}
  /\ ~pr.exited
  /\ proc' = [proc EXCEPT ![p] =
       IF pr.pc = "failed"
         THEN [pr EXCEPT
                 !.errorOutput =
                   IF pr.help
                     THEN flogf(flogf(@, pr.quiet, pr.err), pr.quiet, <<"">>)
                     ELSE flogf(@, pr.quiet, pr.err),
                 !.output = IF pr.help /\ ~pr.quiet THEN Append(@, helpOutput) ELSE @,
                 !.exited = TRUE,
                 !.exitCode = 1]
         ELSE [pr EXCEPT !.exited = TRUE, !.exitCode = 0]]
  /\ UNCHANGED <<fs, git, runs>>

\* ---------------------------------------------------------------- createModule

\* the wrapping of the Action without the module identifier
ActionErr_NoModule(pr, e) == <<"Failed to create Go module: ">> \o e

\* the error createModule returns, as the Action reports it
ActionErr(pr, e) == <<"Failed to create Go module: ">> \o pr.module \o <<": ">> \o e

\* os.Mkdir(moduleBase, 0755)
MkdirWorkspace(p) ==
  LET pr == proc[p] IN
  /\ pr.pc = "mkdir"
  /\ \/ /\ MkdirCanSucceed(fs, pr.moduleBase)
        /\ fs' = Put(fs, pr.moduleBase, dirEntry)
        /\ proc' = [proc EXCEPT ![p] =
             [pr EXCEPT !.pc = "gomod",
                        !.ops = Append(@, Op("Mkdir", pr.moduleBase, TRUE)),
                        !.made = Put(@, pr.moduleBase, dirEntry),
                        !.output = reportCreatedDir(@, pr.quiet, pr.moduleBase)]]
     \/ /\ fs' = fs
        /\ proc' = [proc EXCEPT ![p] =
             Fail(pr, "mkdir", ActionErr(pr, <<"mkdir ">> \o pr.moduleBase),
                  Op("Mkdir", pr.moduleBase, FALSE))]
  /\ UNCHANGED <<git, runs>>

GoModContent(module) == <<"module ">> \o module \o <<"\n", "\n", "go 1.18", "\n">>

\* GoModInit with the error of `go mod init` dropped: createModule goes on
GoModInit_IgnoreErr(p) ==
  LET pr == proc[p]
      goMod == Join(pr.moduleBase, goModFileName) IN
  /\ pr.pc = "gomod"
  /\ \/ /\ ~Exists(fs, goMod)
        /\ fs' = Put(fs, goMod, fileEntry(GoModContent(pr.module), "0644"))
        /\ proc' = [proc EXCEPT ![p] =
             [pr EXCEPT !.pc = "copy", !.set = 0, !.entry = 1,
                        !.ops = Append(@, Op("go mod init", pr.module, TRUE)),
                        !.made = Put(@, goMod, fileEntry(GoModContent(pr.module), "0644")),
                        !.output = flogf(@, pr.quiet, <<"- Initialized Go module">>)]]
     \/ /\ fs' = fs
        /\ proc' = [proc EXCEPT ![p] =
             [pr EXCEPT !.pc = "copy", !.set = 0, !.entry = 1,
                        !.ops = Append(@, Op("go mod init", pr.module, FALSE))]]
  /\ UNCHANGED <<git, runs>>

\* GoModInit with a cleanup on failure: the workspace is removed again
GoModInit_Rollback(p) ==
  LET pr == proc[p]
      goMod == Join(pr.moduleBase, goModFileName) IN
  /\ pr.pc = "gomod"
  /\ \/ /\ ~Exists(fs, goMod)
        /\ fs' = Put(fs, goMod, fileEntry(GoModContent(pr.module), "0644"))
        /\ proc' = [proc EXCEPT ![p] =
             [pr EXCEPT !.pc = "copy", !.set = 0, !.entry = 1,
                        !.ops = Append(@, Op("go mod init", pr.module, TRUE)),
                        !.made = Put(@, goMod, fileEntry(GoModContent(pr.module), "0644")),
                        !.output = flogf(@, pr.quiet, <<"- Initialized Go module">>)]]
     \/ /\ fs' = [q \in DOMAIN fs \ Tree(fs, pr.moduleBase) |-> fs[q]]
        /\ proc' = [proc EXCEPT ![p] =
             Fail(pr, "gomod", ActionErr(pr, <<"exit status 1">>),
                  Op("go mod init", pr.module, FALSE))]
  /\ UNCHANGED <<git, runs>>

\* exec.Command("go", "mod", "init", module) run in moduleBase
GoModInit(p) ==
  LET pr == proc[p]
      goMod == Join(pr.moduleBase, goModFileName) IN
  /\ pr.pc = "gomod"
  /\ \/ /\ ~Exists(fs, goMod)
        /\ fs' = Put(fs, goMod, fileEntry(GoModContent(pr.module), "0644"))
        /\ proc' = [proc EXCEPT ![p] =
             [pr EXCEPT !.pc = "copy", !.set = 0, !.entry = 1,
                        !.ops = Append(@, Op("go mod init", pr.module, TRUE)),
                        !.made = Put(@, goMod, fileEntry(GoModContent(pr.module), "0644")),
                        !.output = flogf(@, pr.quiet, <<"- Initialized Go module">>)]]
     \/ /\ fs' = fs
        /\ proc' = [proc EXCEPT ![p] =
             Fail(pr, "gomod", ActionErr(pr, <<"exit status 1">>),
                  Op("go mod init", pr.module, FALSE))]
  /\ UNCHANGED <<git, runs>>

\* the loop over extraDirs deploying the default set again
CurrentSet_AlwaysDefault(pr) == assetsDefaultDir

\* the template set createModule is deploying: the default set, then extraDirs in order
CurrentSet(pr) == IF pr.set = 0 THEN assetsDefaultDir ELSE pr.extraDirs[pr.set]

\* the callback with the error of a write dropped: the walk goes on to the
\* next entry
CopyEntry_GoesOn(p) ==
  LET pr == proc[p]
      src == CurrentSet(pr)
      srcRoot == Join(assetsDir, src)
      entries == WalkDir(src) IN
  /\ pr.pc = "copy"
  /\ pr.entry <= Len(entries)
  /\ LET e == entries[pr.entry]
         dstPath == Join(pr.moduleBase, withoutFilepathPrefix(e.path, srcRoot))
     IN IF e.isDir
        THEN \/ /\ MkdirCanSucceed(fs, dstPath)
                /\ fs' = Put(fs, dstPath, dirEntry)
                /\ proc' = [proc EXCEPT ![p] =
                     [pr EXCEPT !.entry = @ + 1,
                                !.ops = Append(@, Op("Mkdir", dstPath, TRUE)),
                                !.made = Put(@, dstPath, dirEntry),
                                !.output = reportCreatedDir(@, pr.quiet, dstPath)]]
             \/ /\ fs' = fs
                /\ proc' = [proc EXCEPT ![p] =
                     [pr EXCEPT !.entry = @ + 1,
                                !.ops = Append(@, Op("Mkdir", dstPath, FALSE))]]
        ELSE \/ /\ WriteFileCanSucceed(fs, dstPath)
                /\ fs' = Put(fs, dstPath, fileEntry(e.content, "0644"))
                /\ proc' = [proc EXCEPT ![p] =
                     [pr EXCEPT !.entry = @ + 1,
                                !.ops = Append(@, Op("WriteFile", dstPath, TRUE)),
                                !.made = Put(@, dstPath, fileEntry(e.content, "0644")),
                                !.output = reportCreatedFile(@, pr.quiet, dstPath)]]
             \/ /\ fs' = fs
                /\ proc' = [proc EXCEPT ![p] =
                     [pr EXCEPT !.entry = @ + 1,
                                !.ops = Append(@, Op("WriteFile", dstPath, FALSE))]]
  /\ UNCHANGED <<git, runs>>

\* one call of the fs.WalkDir callback of copyEmbeddedFS
\* CopyEntry giving a written file the permission bits of its store entry
CopyEntry_StoreMode(p) ==
  LET pr == proc[p]
      src == CurrentSet(pr)
      srcRoot == Join(assetsDir, src)
      entries == WalkDir(src) IN
  /\ pr.pc = "copy"
  /\ pr.entry <= Len(entries)
  /\ LET e == entries[pr.entry]
         dstPath == Join(pr.moduleBase, withoutFilepathPrefix(e.path, srcRoot))
     IN IF e.isDir
        THEN \/ /\ MkdirCanSucceed(fs, dstPath)
                /\ fs' = Put(fs, dstPath, dirEntry)
                /\ proc' = [proc EXCEPT ![p] =
                     [pr EXCEPT !.entry = @ + 1,
                                !.ops = Append(@, Op("Mkdir", dstPath, TRUE)),
                                !.made = Put(@, dstPath, dirEntry),
                                !.output = reportCreatedDir(@, pr.quiet, dstPath)]]
             \/ /\ fs' = fs
                /\ proc' = [proc EXCEPT ![p] =
                     Fail(pr, "copy", ActionErr(pr, <<"mkdir ">> \o dstPath),
                          Op("Mkdir", dstPath, FALSE))]
        ELSE \/ /\ WriteFileCanSucceed(fs, dstPath)
                /\ fs' = Put(fs, dstPath, fileEntry(e.content, embedMode(e)))
                /\ proc' = [proc EXCEPT ![p] =
                     [pr EXCEPT !.entry = @ + 1,
                                !.ops = Append(@, Op("WriteFile", dstPath, TRUE)),
                                !.made = Put(@, dstPath, fileEntry(e.content, embedMode(e))),
                                !.output = reportCreatedFile(@, pr.quiet, dstPath)]]
             \/ /\ \/ fs' = fs
                   \/ /\ WriteFileCanSucceed(fs, dstPath)
                      /\ fs' = Put(fs, dstPath, fileEntry(<<>>, "0644"))
                /\ proc' = [proc EXCEPT ![p] =
                     Fail(pr, "copy", ActionErr(pr, <<"open ">> \o dstPath),
                          Op("WriteFile", dstPath, FALSE))]
  /\ UNCHANGED <<git, runs>>

CopyEntry(p) ==
  LET pr == proc[p]
      src == CurrentSet(pr)
      srcRoot == Join(assetsDir, src)
      entries == WalkDir(src) IN
  /\ pr.pc = "copy"
  /\ pr.entry <= Len(entries)
  /\ LET e == entries[pr.entry]
         dstPath == Join(pr.moduleBase, withoutFilepathPrefix(e.path, srcRoot))
     IN IF e.isDir
        THEN \/ /\ MkdirCanSucceed(fs, dstPath)
                /\ fs' = Put(fs, dstPath, dirEntry)
                /\ proc' = [proc EXCEPT ![p] =
                     [pr EXCEPT !.entry = @ + 1,
                                !.ops = Append(@, Op("Mkdir", dstPath, TRUE)),
                                !.made = Put(@, dstPath, dirEntry),
                                !.output = reportCreatedDir(@, pr.quiet, dstPath)]]
             \/ /\ fs' = fs
                /\ proc' = [proc EXCEPT ![p] =
                     Fail(pr, "copy", ActionErr(pr, <<"mkdir ">> \o dstPath),
                          Op("Mkdir", dstPath, FALSE))]
        ELSE \/ /\ WriteFileCanSucceed(fs, dstPath)
                /\ fs' = Put(fs, dstPath, fileEntry(e.content, "0644"))
                /\ proc' = [proc EXCEPT ![p] =
                     [pr EXCEPT !.entry = @ + 1,
                                !.ops = Append(@, Op("WriteFile", dstPath, TRUE)),
                                !.made = Put(@, dstPath, fileEntry(e.content, "0644")),
                                !.output = reportCreatedFile(@, pr.quiet, dstPath)]]
             \/ /\ \/ fs' = fs
                   \/ /\ WriteFileCanSucceed(fs, dstPath)
                      /\ fs' = Put(fs, dstPath, fileEntry(<<>>, "0644"))
                /\ proc' = [proc EXCEPT ![p] =
                     Fail(pr, "copy", ActionErr(pr, <<"open ">> \o dstPath),
                          Op("WriteFile", dstPath, FALSE))]
  /\ UNCHANGED <<git, runs>>

\* CopyDone with the loop over extraDirs left out
CopyDone_SkipExtras(p) ==
  LET pr == proc[p] IN
  /\ pr.pc = "copy"
  /\ pr.entry > Len(WalkDir(CurrentSet(pr)))
  /\ proc' = [proc EXCEPT ![p] =
       IF pr.repo
         THEN [pr EXCEPT !.pc = "gitEmail"]
       ELSE [pr EXCEPT !.pc = "finish"]]
  /\ UNCHANGED <<fs, git, runs>>

\* copyEmbeddedFS returns nil: createModule goes on to the next extra set,
\* then to the Git repository if one was asked for, then to the success output
\* CopyDone that waits for one entry more than the set has
CopyDone_OffByOne(p) ==
  LET pr == proc[p] IN
  /\ pr.pc = "copy"
  /\ pr.entry > Len(WalkDir(CurrentSet(pr))) + 1
  /\ proc' = [proc EXCEPT ![p] =
       IF pr.set < Len(pr.extraDirs)
         THEN [pr EXCEPT !.set = @ + 1, !.entry = 1]
       ELSE IF pr.repo
         THEN [pr EXCEPT !.pc = "gitEmail"]
       ELSE [pr EXCEPT !.pc = "finish"]]
  /\ UNCHANGED <<fs, git, runs>>

CopyDone(p) ==
  LET pr == proc[p] IN
  /\ pr.pc = "copy"
  /\ pr.entry > Len(WalkDir(CurrentSet(pr)))
  /\ proc' = [proc EXCEPT ![p] =
       IF pr.set < Len(pr.extraDirs)
         THEN [pr EXCEPT !.set = @ + 1, !.entry = 1]
       ELSE IF pr.repo
         THEN [pr EXCEPT !.pc = "gitEmail"]
       ELSE [pr EXCEPT !.pc = "finish"]]
  /\ UNCHANGED <<fs, git, runs>>

\* ---------------------------------------------------------------- setUpGitRepo

\* what `git config --global <key>` can do: print a value, print only blanks,
\* exit 1 printing nothing because the key is not set, or fail otherwise
GitConfigOutcomes == {"value", "blank", "unset", "error"}

\* the initial branch the app was built with (gitInitialBranch): none, or a name
InitialBranches == {"nil", "main"}

\* the branch `git init` creates when no initial branch is passed
gitDefaultBranch == "master"

\* the error setUpGitRepo returns, as createModule and the Action report it
GitErr(pr, e) ==
  ActionErr(pr, <<"Failed to create as Git repository: ">> \o e)

\* the query made but neither its error nor its output looked at
GitConfig_NoChecks(p, at, key, next) ==
  LET pr == proc[p] IN
  /\ pr.pc = at
  /\ \E outcome \in GitConfigOutcomes :
       proc' = [proc EXCEPT ![p] =
         [pr EXCEPT !.pc = next,
                    !.ops = Append(@, Op("git config", <<key, outcome>>,
                                         outcome \notin {"unset", "error"}))]]
  /\ UNCHANGED <<fs, git, runs>>

\* exec.Command("git", "config", "--global", key).Output() with the two checks on it
\* (the back quotes of the "must be set" message are left out)
GitConfig(p, at, key, next) ==
  LET pr == proc[p] IN
  /\ pr.pc = at
  /\ \E outcome \in GitConfigOutcomes :
       proc' = [proc EXCEPT ![p] =
         IF outcome \in {"unset", "error"}
           THEN Fail(pr, at, GitErr(pr, <<"Failed to look up Git ", key>>),
                     Op("git config", <<key, outcome>>, FALSE))
         ELSE IF outcome = "blank"
           THEN Fail(pr, at, GitErr(pr, <<"git config --global ", key, " must be set">>),
                     Op("git config", <<key, outcome>>, TRUE))
         ELSE [pr EXCEPT !.pc = next,
                         !.ops = Append(@, Op("git config", <<key, outcome>>, TRUE))]]
  /\ UNCHANGED <<fs, git, runs>>

GitConfigEmail(p) == GitConfig(p, "gitEmail", "user.email", "gitName")

GitConfigName(p) == GitConfig(p, "gitName", "user.name", "gitInit")

newRepo(branch) ==
  [branch |-> branch, index |-> << >>, commits |-> <<>>, remote |-> <<>>]

\* exec.Command("git", "init" [, "--initial-branch", b]) run in moduleBase
GitInit(p) ==
  LET pr == proc[p]
      gitDir == Join(pr.moduleBase, gitDirName) IN
  /\ pr.pc = "gitInit"
  /\ \E ib \in InitialBranches :
       \/ /\ ~Exists(fs, gitDir)
          /\ fs' = Put(fs, gitDir, dirEntry)
          /\ git' = Put(git, pr.moduleBase,
                        newRepo(IF ib = "nil" THEN gitDefaultBranch ELSE ib))
          /\ proc' = [proc EXCEPT ![p] =
               [pr EXCEPT !.pc = "gitignore",
                          !.ops = Append(@, Op("git init", <<ib>>, TRUE)),
                          !.made = Put(@, gitDir, dirEntry),
                          !.output = flogf(@, pr.quiet, <<"- Initialized Git repository">>)]]
       \/ /\ fs' = fs
          /\ git' = git
          /\ proc' = [proc EXCEPT ![p] =
               Fail(pr, "gitInit", GitErr(pr, <<"Failed to initialize Git repository">>),
                    Op("git init", <<ib>>, FALSE))]
  /\ UNCHANGED runs

\* os.WriteFile(path, bytes, 0644) of setUpGitRepo, then the report of the file
WriteRepoFile(p, at, path, bytes, next) ==
  LET pr == proc[p] IN
  /\ pr.pc = at
  /\ \/ /\ WriteFileCanSucceed(fs, path)
        /\ fs' = Put(fs, path, fileEntry(bytes, "0644"))
        /\ proc' = [proc EXCEPT ![p] =
             [pr EXCEPT !.pc = next,
                        !.ops = Append(@, Op("WriteFile", path, TRUE)),
                        !.made = Put(@, path, fileEntry(bytes, "0644")),
                        !.output = reportCreatedFile(@, pr.quiet, path)]]
     \/ /\ \/ fs' = fs
           \/ /\ WriteFileCanSucceed(fs, path)
              /\ fs' = Put(fs, path, fileEntry(<<>>, "0644"))
        /\ proc' = [proc EXCEPT ![p] =
             Fail(pr, at, GitErr(pr, <<"open ">> \o path),
                  Op("WriteFile", path, FALSE))]
  /\ UNCHANGED <<git, runs>>

gitignoreContent(moduleBase) == moduleBase

\* a README without the heading mark
readmeContent_NoHeading(moduleBase) == moduleBase \o <<"\n", "\n">>

readmeContent(moduleBase) == <<"# ">> \o moduleBase \o <<"\n", "\n">>

\* .gitignore written in the working directory instead of the workspace
WriteGitignore_InCwd(p) ==
  WriteRepoFile(p, "gitignore", gitignoreFileName,
                gitignoreContent(proc[p].moduleBase), "readme")

WriteGitignore(p) ==
  WriteRepoFile(p, "gitignore", Join(proc[p].moduleBase, gitignoreFileName),
                gitignoreContent(proc[p].moduleBase), "readme")

WriteReadme(p) ==
  WriteRepoFile(p, "readme", Join(proc[p].moduleBase, readmeFileName),
                readmeContent(proc[p].moduleBase), "gitAdd")

\* the names of the path components of q below the workspace ws
RECURSIVE Components(_)
Components(s) ==
  IF s = <<>> THEN {}
  ELSE IF FirstSep(s) = 0 THEN {s}
  ELSE {SubSeq(s, 1, FirstSep(s) - 1)} \cup Components(SubSeq(s, FirstSep(s) + 1, Len(s)))

\* the ignore patterns of the workspace: the lines of its .gitignore
IgnorePatterns(f, ws) ==
  LET gi == Join(ws, gitignoreFileName)
  IN IF Exists(f, gi) /\ f[gi].kind = "file" /\ f[gi].content # <<>>
       THEN {f[gi].content} ELSE {}

\* the files `git add .` stages in workspace ws: every file below it that is
\* not in .git and has no path component matching an ignore pattern
Stageable(f, ws) ==
  { q \in Tree(f, ws) :
      /\ f[q].kind = "file"
      /\ ~Under(q, Join(ws, gitDirName))
      /\ Components(withoutFilepathPrefix(q, ws)) \cap IgnorePatterns(f, ws) = {} }

\* exec.Command("git", "add", ".") run in moduleBase
GitAdd(p) ==
  LET pr == proc[p] IN
  /\ pr.pc = "gitAdd"
  /\ \/ /\ pr.moduleBase \in DOMAIN git
        /\ git' = [git EXCEPT ![pr.moduleBase].index =
                     [q \in Stageable(fs, pr.moduleBase) |-> fs[q].content]]
        /\ proc' = [proc EXCEPT ![p] =
             [pr EXCEPT !.pc = "gitCommit",
                        !.ops = Append(@, Op("git add", <<".">>, TRUE))]]
     \/ /\ git' = git
        /\ proc' = [proc EXCEPT ![p] =
             Fail(pr, "gitAdd", GitErr(pr, <<"Failed to stage files for Git commit">>),
                  Op("git add", <<".">>, FALSE))]
  /\ UNCHANGED <<fs, runs>>

\* GitCommit with the error of `git commit` dropped: setUpGitRepo goes on
GitCommit_IgnoreErr(p) ==
  LET pr == proc[p] IN
  /\ pr.pc = "gitCommit"
  /\ \/ /\ pr.moduleBase \in DOMAIN git
        /\ DOMAIN git[pr.moduleBase].index # {}
        /\ git' = [git EXCEPT ![pr.moduleBase].commits =
                     Append(@, [message |-> "Initial commit",
                                tree |-> git[pr.moduleBase].index])]
        /\ proc' = [proc EXCEPT ![p] =
             [pr EXCEPT !.pc = "gitRemote",
                        !.ops = Append(@, Op("git commit", <<"Initial commit">>, TRUE)),
                        !.output = flogf(@, pr.quiet,
                                         <<"- Committed all files to Git repository">>)]]
     \/ /\ git' = git
        /\ proc' = [proc EXCEPT ![p] =
             [pr EXCEPT !.pc = "gitRemote",
                        !.ops = Append(@, Op("git commit", <<"Initial commit">>, FALSE))]]
  /\ UNCHANGED <<fs, runs>>

\* exec.Command("git", "commit", "-m", "Initial commit") run in moduleBase
GitCommit(p) ==
  LET pr == proc[p] IN
  /\ pr.pc = "gitCommit"
  /\ \/ /\ pr.moduleBase \in DOMAIN git
        /\ DOMAIN git[pr.moduleBase].index # {}
        /\ git' = [git EXCEPT ![pr.moduleBase].commits =
                     Append(@, [message |-> "Initial commit",
                                tree |-> git[pr.moduleBase].index])]
        /\ proc' = [proc EXCEPT ![p] =
             [pr EXCEPT !.pc = "gitRemote",
                        !.ops = Append(@, Op("git commit", <<"Initial commit">>, TRUE)),
                        !.output = flogf(@, pr.quiet,
                                         <<"- Committed all files to Git repository">>)]]
     \/ /\ git' = git
        /\ proc' = [proc EXCEPT ![p] =
             Fail(pr, "gitCommit",
                  GitErr(pr, <<"Failed to commit files into Git repository">>),
                  Op("git commit", <<"Initial commit">>, FALSE))]
  /\ UNCHANGED <<fs, runs>>

\* strings.Contains(s, fragment)
Contains(s, fragment) == \E i \in 1..Len(s) : s[i] = fragment

\* the step with the URL appended without the check for an empty URL
nextStepCreateRemote_NoCheck(gitUrl) ==
  <<"Create remote Git repository", " ">> \o gitUrl \o
  (IF Contains(gitUrl, "github.com") THEN <<": https://github.com/new">> ELSE <<>>)

\* the "Create remote Git repository" next step for gitUrl ("" when no remote)
nextStepCreateRemote(gitUrl) ==
  <<"Create remote Git repository">> \o
  (IF Len(gitUrl) > 0
     THEN <<" ">> \o gitUrl \o
          (IF Contains(gitUrl, "github.com") THEN <<": https://github.com/new">> ELSE <<>>)
     ELSE <<>>)

\* GitRemote without the comparison of gitUrlCore and module: a remote is
\* added for every identifier
GitRemote_AlwaysAdd(p) ==
  LET pr == proc[p]
      gitUrlCore == ReplaceFirstSep(pr.module) IN
  /\ pr.pc = "gitRemote"
  /\ IF TRUE
       THEN LET gitUrl == <<"git@">> \o gitUrlCore \o <<".git">> IN
            \/ /\ pr.moduleBase \in DOMAIN git
               /\ git[pr.moduleBase].remote = <<>>
               /\ git' = [git EXCEPT ![pr.moduleBase].remote = gitUrl]
               /\ proc' = [proc EXCEPT ![p] =
                    [pr EXCEPT !.pc = "gitBranch",
                               !.gitUrl = gitUrl,
                               !.ops = Append(@, Op("git remote add", gitUrl, TRUE)),
                               !.output = flogf(@, pr.quiet,
                                  <<"- Added remote for Git repository: ">> \o gitUrl),
                               !.nextSteps = Append(@, nextStepCreateRemote(gitUrl))]]
            \/ /\ git' = git
               /\ proc' = [proc EXCEPT ![p] =
                    Fail(pr, "gitRemote",
                         GitErr(pr, <<"Failed to stage files for Git commit">>),
                         Op("git remote add", gitUrl, FALSE))]
       ELSE /\ git' = git
            /\ proc' = [proc EXCEPT ![p] =
                 [pr EXCEPT !.pc = "gitBranch",
                            !.output = flogf(@, pr.quiet,
                               <<"- NOTE: Unable to add remote for Git repository">>),
                            !.nextSteps = Append(@, nextStepCreateRemote(<<>>))]]
  /\ UNCHANGED <<fs, runs>>

\* the remote wiring of setUpGitRepo: derive the URL, `git remote add origin`
\* when the identifier has a separator, a note otherwise, then the next step
GitRemote(p) ==
  LET pr == proc[p]
      gitUrlCore == ReplaceFirstSep(pr.module) IN
  /\ pr.pc = "gitRemote"
  /\ IF gitUrlCore # pr.module
       THEN LET gitUrl == <<"git@">> \o gitUrlCore \o <<".git">> IN
            \/ /\ pr.moduleBase \in DOMAIN git
               /\ git[pr.moduleBase].remote = <<>>
               /\ git' = [git EXCEPT ![pr.moduleBase].remote = gitUrl]
               /\ proc' = [proc EXCEPT ![p] =
                    [pr EXCEPT !.pc = "gitBranch",
                               !.gitUrl = gitUrl,
                               !.ops = Append(@, Op("git remote add", gitUrl, TRUE)),
                               !.output = flogf(@, pr.quiet,
                                  <<"- Added remote for Git repository: ">> \o gitUrl),
                               !.nextSteps = Append(@, nextStepCreateRemote(gitUrl))]]
            \/ /\ git' = git
               /\ proc' = [proc EXCEPT ![p] =
                    Fail(pr, "gitRemote",
                         GitErr(pr, <<"Failed to stage files for Git commit">>),
                         Op("git remote add", gitUrl, FALSE))]
       ELSE /\ git' = git
            /\ proc' = [proc EXCEPT ![p] =
                 [pr EXCEPT !.pc = "gitBranch",
                            !.output = flogf(@, pr.quiet,
                               <<"- NOTE: Unable to add remote for Git repository">>),
                            !.nextSteps = Append(@, nextStepCreateRemote(<<>>))]]
  /\ UNCHANGED <<fs, runs>>

\* the push step naming the default branch of git instead of the branch read back
GitSymbolicRef_DefaultBranch(p) ==
  LET pr == proc[p]
      push == "Push to remote Git repository: $ git push -u origin " IN
  /\ pr.pc = "gitBranch"
  /\ \E ok \in BOOLEAN :
       LET cmdOutput == IF ok /\ pr.moduleBase \in DOMAIN git
                          THEN <<gitDefaultBranch>> ELSE <<>>
       IN proc' = [proc EXCEPT ![p] =
            [pr EXCEPT !.pc = "finish",
                       !.ops = Append(@, Op("git symbolic-ref", cmdOutput, ok)),
                       !.nextSteps = Append(@,
                          IF cmdOutput # <<>>
                            THEN <<push>> \o cmdOutput
                            ELSE <<push, "$(git branch --show-current)">>)]]
  /\ UNCHANGED <<fs, git, runs>>

\* exec.Command("git", "symbolic-ref", "--short", "HEAD"): the push next step
\* names the branch read back, or a placeholder when nothing was read
GitSymbolicRef(p) ==
  LET pr == proc[p]
      push == "Push to remote Git repository: $ git push -u origin " IN
  /\ pr.pc = "gitBranch"
  /\ \E ok \in BOOLEAN :
       LET cmdOutput == IF ok /\ pr.moduleBase \in DOMAIN git
                          THEN <<git[pr.moduleBase].branch>> ELSE <<>>
       IN proc' = [proc EXCEPT ![p] =
            [pr EXCEPT !.pc = "finish",
                       !.ops = Append(@, Op("git symbolic-ref", cmdOutput, ok)),
                       !.nextSteps = Append(@,
                          IF cmdOutput # <<>>
                            THEN <<push>> \o cmdOutput
                            ELSE <<push, "$(git branch --show-current)">>)]]
  /\ UNCHANGED <<fs, git, runs>>

\* ---------------------------------------------------------------- createModule, the success output

\* values of the EDITOR environment variable
EditorEnv == {"", "vim"}

\* the lines "- <step>" of the next steps
RECURSIVE NextStepLines(_)
NextStepLines(steps) ==
  IF steps = <<>> THEN <<>>
  ELSE <<(<<"- ">> \o Head(steps))>> \o NextStepLines(Tail(steps))

\* Finish in which EDITOR, when set, is looked at last and wins over nova
Finish_EnvWins(p) ==
  LET pr == proc[p] IN
  /\ pr.pc = "finish"
  /\ \E editorEnvVar \in EditorEnv :
       LET fromSet == IF \E i \in 1..Len(pr.extraDirs) : pr.extraDirs[i] = novaDir
                        THEN "nova" ELSE "$EDITOR"
           editor == IF editorEnvVar # "" THEN editorEnvVar ELSE fromSet
           nextSteps == Append(pr.nextSteps,
                               <<"Start coding: $ ", editor, " ">> \o pr.moduleBase)
           finished == flogf(pr.output, pr.quiet,
                             <<"Finished creating Go module: ">> \o pr.module)
       IN proc' = [proc EXCEPT ![p] =
            [pr EXCEPT !.pc = "done",
                       !.editorEnv = editorEnvVar,
                       !.nextSteps = nextSteps,
                       !.output =
                         IF Len(nextSteps) > 0 /\ ~pr.quiet
                           THEN finished \o <<(<<"Next steps:">>)>> \o NextStepLines(nextSteps)
                           ELSE finished]]
  /\ UNCHANGED <<fs, git, runs>>

\* the end of createModule: the success line, the editor step, the next steps
Finish(p) ==
  LET pr == proc[p] IN
  /\ pr.pc = "finish"
  /\ \E editorEnvVar \in EditorEnv :
       LET fromEnv == IF editorEnvVar # "" THEN editorEnvVar ELSE "$EDITOR"
           editor == IF \E i \in 1..Len(pr.extraDirs) : pr.extraDirs[i] = novaDir
                       THEN "nova" ELSE fromEnv
           nextSteps == Append(pr.nextSteps,
                               <<"Start coding: $ ", editor, " ">> \o pr.moduleBase)
           finished == flogf(pr.output, pr.quiet,
                             <<"Finished creating Go module: ">> \o pr.module)
       IN proc' = [proc EXCEPT ![p] =
            [pr EXCEPT !.pc = "done",
                       !.editorEnv = editorEnvVar,
                       !.nextSteps = nextSteps,
                       !.output =
                         IF Len(nextSteps) > 0 /\ ~pr.quiet
                           THEN finished \o <<(<<"Next steps:">>)>> \o NextStepLines(nextSteps)
                           ELSE finished]]
  /\ UNCHANGED <<fs, git, runs>>

Next ==
  \E p \in Procs :
    \/ Action(p)
    \/ OnUsageError(p)
    \/ ExitErrHandler(p)
    \/ MkdirWorkspace(p)
    \/ GoModInit(p)
    \/ CopyEntry(p)
    \/ CopyDone(p)
    \/ GitConfigEmail(p)
    \/ GitConfigName(p)
    \/ GitInit(p)
    \/ WriteGitignore(p)
    \/ WriteReadme(p)
    \/ GitAdd(p)
    \/ GitCommit(p)
    \/ GitRemote(p)
    \/ GitSymbolicRef(p)
    \/ Finish(p)

Spec == Init /\ [][Next]_vars

\* the return of the call a started run is at: every step of createModule,
\* setUpGitRepo and the exit handler, the start of a run excluded
Return(p) ==
  \/ ExitErrHandler(p)
  \/ MkdirWorkspace(p)
  \/ GoModInit(p)
  \/ CopyEntry(p)
  \/ CopyDone(p)
  \/ GitConfigEmail(p)
  \/ GitConfigName(p)
  \/ GitInit(p)
  \/ WriteGitignore(p)
  \/ WriteReadme(p)
  \/ GitAdd(p)
  \/ GitCommit(p)
  \/ GitRemote(p)
  \/ GitSymbolicRef(p)
  \/ Finish(p)

\* the runs in which every call a started run makes returns: the code runs
\* its steps one after the other on one goroutine and waits for each call
SpecLive == Init /\ [][Next]_vars /\ \A p \in Procs : WF_vars(Return(p))

\* ---------------------------------------------------------------- two runs at once

\* two gmc processes started in the same working directory, each run once;
\* their steps interleave in any order.  The runs narrate and give the nova
\* flag at most once: neither input bears on what the two runs do to each other.
ConcProcs == {1, 2}

ConcInputs(pr) == ~pr.quiet /\ pr.novaFlags <= 1

InitConc ==
  /\ fs = [q \in {<<".">>, <<Sep>>} |-> dirEntry]
  /\ git = << >>
  /\ proc = [p \in ConcProcs |-> idleProc]
  /\ runs = 0

NextConc ==
  \E p \in ConcProcs :
    \/ proc[p].pc = "idle" /\ Action(p) /\ ConcInputs(proc'[p])
    \/ proc[p].pc = "idle" /\ OnUsageError(p) /\ ConcInputs(proc'[p])
    \/ ExitErrHandler(p)
    \/ MkdirWorkspace(p)
    \/ GoModInit(p)
    \/ CopyEntry(p)
    \/ CopyDone(p)
    \/ GitConfigEmail(p)
    \/ GitConfigName(p)
    \/ GitInit(p)
    \/ WriteGitignore(p)
    \/ WriteReadme(p)
    \/ GitAdd(p)
    \/ GitCommit(p)
    \/ GitRemote(p)
    \/ GitSymbolicRef(p)
    \/ Finish(p)

SpecConc == InitConc /\ [][NextConc]_vars

\* ---------------------------------------------------------------- copyEmbeddedFS alone

\* copyEmbeddedFS called on its own, up to MaxDeploys times, each time with a
\* template set of the store and the same destination directory, which exists
MaxDeploys == 2

DeploySets == {assetsDefaultDir, novaDir}

DeployDests == {<<"bar">>, <<"main.go">>}

InitDeploy ==
  /\ \E dst \in DeployDests, q \in BOOLEAN :
       /\ fs = [x \in {<<".">>, <<Sep>>, dst} |-> dirEntry]
       /\ proc = [p \in Procs |-> [idleProc EXCEPT !.moduleBase = dst, !.quiet = q]]
  /\ git = << >>
  /\ runs = 0

\* the call copyEmbeddedFS(assets, src, moduleBase, output, quiet); the call is
\* entered in the log of the process
DeployCall(p) ==
  LET pr == proc[p] IN
  /\ pr.pc \in {"idle", "deployed", "failed"}
  /\ runs < MaxDeploys
  /\ \E src \in DeploySets :
       proc' = [proc EXCEPT ![p] =
         [pr EXCEPT !.pc = "copy", !.extraDirs = <<src>>, !.set = 1, !.entry = 1,
                    !.failedAt = "none", !.err = <<>>,
                    !.ops = Append(@, Op("copyEmbeddedFS", src, TRUE))]]
  /\ runs' = runs + 1
  /\ UNCHANGED <<fs, git>>

\* fs.WalkDir has visited every entry: copyEmbeddedFS returns nil
DeployReturn(p) ==
  LET pr == proc[p] IN
  /\ pr.pc = "copy"
  /\ pr.entry > Len(WalkDir(CurrentSet(pr)))
  /\ proc' = [proc EXCEPT ![p] = [pr EXCEPT !.pc = "deployed"]]
  /\ UNCHANGED <<fs, git, runs>>

NextDeploy ==
  \E p \in Procs :
    \/ DeployCall(p)
    \/ CopyEntry(p)
    \/ DeployReturn(p)

SpecDeploy == InitDeploy /\ [][NextDeploy]_vars

\* ---------------------------------------------------------------- properties

\* the destination paths of the entries of template set src in workspace ws
DstPaths(ws, src) ==
  { Join(ws, withoutFilepathPrefix(WalkDir(src)[i].path, Join(assetsDir, src))) :
      i \in 1..Len(WalkDir(src)) }

\* the destination paths of the sets a run deploys: default and its extraDirs
RequestedPaths(pr) ==
  DstPaths(pr.moduleBase, assetsDefaultDir) \cup
  UNION { DstPaths(pr.moduleBase, pr.extraDirs[k]) : k \in 1..Len(pr.extraDirs) }

\* the destination paths of every set of the store
StorePaths(ws) == DstPaths(ws, assetsDefaultDir) \cup DstPaths(ws, novaDir)

\* a call whose outcome makes its step fail: a call that failed (the branch
\* query apart, whose error is dropped) or a `git config` that printed no value
FatalFailure(o) ==
  \/ ~o.ok /\ o.op # "git symbolic-ref"
  \/ o.op = "git config" /\ o.arg[2] # "value"

HasLine(output, first) == \E i \in 1..Len(output) : output[i][1] = first

Running(pr) == pr.pc \notin {"idle", "done", "failed"}

\* C1: the first step of createModule that fails ends the run with an error:
\* the failing call is the last call the run makes, no call is made twice,
\* "Finished creating" is not narrated, and a failed `go mod init` leaves the
\* workspace without any template entry.
C1_FirstFailureEndsRun ==
  \A p \in Procs :
    LET pr == proc[p]
        o == pr.ops IN
    /\ \A i \in 1..Len(o) : FatalFailure(o[i]) => i = Len(o) /\ pr.pc = "failed"
    /\ \A i, j \in 1..Len(o) : i < j => ~(o[i].op = o[j].op /\ o[i].arg = o[j].arg)
    /\ pr.pc = "failed" =>
         /\ ~HasLine(pr.output, "Finished creating Go module: ")
         /\ pr.err # <<>>
         /\ pr.failedAt # "usage" => Len(o) > 0 /\ FatalFailure(o[Len(o)])
    /\ pr.failedAt = "gomod" =>
         /\ DOMAIN pr.made = {pr.moduleBase}
         /\ Tree(fs, pr.moduleBase) \cap StorePaths(pr.moduleBase) = {}

\* a run whose `go mod init` failed after the workspace was created
C1_Witness ==
  \E p \in Procs :
    /\ proc[p].pc = "failed" /\ proc[p].failedAt = "gomod"
    /\ Len(proc[p].ops) = 2 /\ proc[p].ops[1].ok /\ ~proc[p].ops[2].ok

\* C2: in the terminal state of a failed run everything the run created before
\* the failure still exists with the kind, permissions and content it was
\* created with, the repository metadata included.
C2_NoRollback ==
  \A p \in Procs :
    LET pr == proc[p] IN
    pr.pc = "failed" =>
      /\ \A q \in DOMAIN pr.made : Exists(fs, q) /\ fs[q] = pr.made[q]
      /\ Join(pr.moduleBase, gitDirName) \in DOMAIN pr.made => pr.moduleBase \in DOMAIN git

\* a run that failed at the commit, after the workspace, go.mod, the default
\* set, the repository, .gitignore and README.md were created
C2_Witness ==
  \E p \in Procs :
    /\ proc[p].pc = "failed" /\ proc[p].failedAt = "gitCommit"
    /\ Join(proc[p].moduleBase, readmeFileName) \in DOMAIN proc[p].made
    /\ Cardinality(DOMAIN proc[p].made) >= 6

\* the place of a call in the sequence of createModule: 1 the workspace
\* directory, 2 go mod init, 3 the default set, 3 + k the k-th extra set,
\* 10 and above the calls of setUpGitRepo in their order
StepRank(pr, o) ==
  IF o.op = "Mkdir" /\ o.arg = pr.moduleBase THEN 1
  ELSE IF o.op = "go mod init" THEN 2
  ELSE IF o.op \in {"Mkdir", "WriteFile"}
          /\ o.arg \in DstPaths(pr.moduleBase, assetsDefaultDir) THEN 3
  ELSE IF o.op \in {"Mkdir", "WriteFile"}
          /\ \E k \in 1..Len(pr.extraDirs) : o.arg \in DstPaths(pr.moduleBase, pr.extraDirs[k])
    THEN 3 + (CHOOSE k \in 1..Len(pr.extraDirs) :
                 o.arg \in DstPaths(pr.moduleBase, pr.extraDirs[k]))
  ELSE IF o.op = "git config" /\ o.arg[1] = "user.email" THEN 10
  ELSE IF o.op = "git config" THEN 11
  ELSE IF o.op = "git init" THEN 12
  ELSE IF o.op = "WriteFile" /\ o.arg = Join(pr.moduleBase, gitignoreFileName) THEN 13
  ELSE IF o.op = "WriteFile" /\ o.arg = Join(pr.moduleBase, readmeFileName) THEN 14
  ELSE IF o.op = "git add" THEN 15
  ELSE IF o.op = "git commit" THEN 16
  ELSE IF o.op = "git remote add" THEN 17
  ELSE IF o.op = "git symbolic-ref" THEN 18
  ELSE 0

IsDeployRank(r) == r >= 3 /\ r < 10

\* C3: the calls of a run are made in the order workspace directory, go mod
\* init, default set, extra sets in the order given, repository (only when
\* asked for), each after the one before it succeeded; go.mod exists when a
\* template entry is written and every requested template entry exists when
\* the calls of the repository start.
C3_StepOrder ==
  \A p \in Procs :
    LET pr == proc[p]
        o == pr.ops
        r(i) == StepRank(pr, o[i]) IN
    /\ \A i \in 1..Len(o) : r(i) # 0
    /\ Len(o) > 0 => r(1) = 1
    /\ \A i \in 1..(Len(o) - 1) :
         /\ ~FatalFailure(o[i])
         /\ r(i) <= r(i + 1)
         /\ r(i) = r(i + 1) => IsDeployRank(r(i))
         \* no step is skipped
         /\ r(i + 1) = 2 => r(i) = 1
         /\ r(i + 1) = 3 => r(i) \in {2, 3}
         /\ IsDeployRank(r(i + 1)) /\ r(i + 1) > 3 => r(i) \in {r(i + 1) - 1, r(i + 1)}
         /\ r(i + 1) = 10 => r(i) = 3 + Len(pr.extraDirs)
         /\ r(i + 1) > 10 => r(i) = r(i + 1) - 1 \/ (r(i + 1) = 18 /\ r(i) = 16)
    /\ \A i \in 1..Len(o) :
         /\ IsDeployRank(r(i)) =>
              \E j \in 1..(i - 1) : o[j].op = "go mod init" /\ o[j].ok
         /\ IsDeployRank(r(i)) /\ (o[i].ok \/ i < Len(o)) =>
              Exists(fs, Join(pr.moduleBase, goModFileName))
         /\ r(i) >= 10 =>
              /\ pr.repo
              /\ RequestedPaths(pr) \subseteq DOMAIN fs
              /\ RequestedPaths(pr) \subseteq DOMAIN pr.made
    /\ pr.pc = "done" =>
         /\ RequestedPaths(pr) \cup {pr.moduleBase, Join(pr.moduleBase, goModFileName)}
              \subseteq DOMAIN pr.made
         /\ pr.repo <=> \E i \in 1..Len(o) : o[i].op = "git commit" /\ o[i].ok

\* a successful run with the nova set and a repository
C3_Witness ==
  \E p \in Procs :
    /\ proc[p].pc = "done" /\ proc[p].repo /\ proc[p].extraDirs = <<novaDir>>
    /\ \E i \in 1..Len(proc[p].ops) : proc[p].ops[i].op = "git remote add"

\* C4: a run whose workspace directory already exists fails at os.Mkdir; the
\* failing Mkdir is the only call the run makes, and neither the start of the
\* run nor the failing Mkdir changes the file system or a repository.
C4_SecondRunFails ==
  /\ [](\A p \in Procs :
          proc[p].failedAt = "mkdir" =>
            /\ proc[p].pc = "failed"
            /\ Len(proc[p].ops) = 1 /\ ~proc[p].ops[1].ok
            /\ DOMAIN proc[p].made = {})
  /\ [][\A p \in Procs :
          /\ proc[p].pc \in {"idle", "done", "failed"} /\ proc'[p] # proc[p]
               => fs' = fs /\ git' = git
          /\ proc[p].pc = "mkdir" /\ Exists(fs, proc[p].moduleBase) /\ proc'[p] # proc[p]
               => /\ proc'[p].pc = "failed" /\ proc'[p].failedAt = "mkdir"
                  /\ fs' = fs /\ git' = git]_vars

\* the second run, given the identifier of the first, failed at os.Mkdir
C4_Witness ==
  \E p \in Procs :
    /\ runs = 2
    /\ proc[p].pc = "failed" /\ proc[p].failedAt = "mkdir"
    /\ Exists(fs, Join(proc[p].moduleBase, goModFileName))
    /\ fs[Join(proc[p].moduleBase, goModFileName)].content = GoModContent(proc[p].module)
    /\ Exists(fs, Join(proc[p].moduleBase, <<"main.go">>))

\* C5: after a successful run with no extra set and no repository the
\* workspace holds exactly go.mod and the entries of the default set.
C5_ExactlyDefaultSet ==
  \A p \in Procs :
    LET pr == proc[p] IN
    pr.pc = "done" /\ pr.novaFlags = 0 /\ ~pr.repo =>
      /\ Tree(fs, pr.moduleBase) =
           {pr.moduleBase, Join(pr.moduleBase, goModFileName)}
             \cup DstPaths(pr.moduleBase, assetsDefaultDir)
      /\ IsDirAt(fs, pr.moduleBase)
      /\ fs[Join(pr.moduleBase, goModFileName)].kind = "file"
      /\ \A i \in 1..Len(assets.default) :
           LET e == assets.default[i]
               q == Join(pr.moduleBase,
                         withoutFilepathPrefix(e.path, Join(assetsDir, assetsDefaultDir)))
           IN Exists(fs, q) /\ fs[q].kind = (IF e.isDir THEN "dir" ELSE "file")
                /\ fs[q].content = e.content

\* a successful run with no extra set and no repository, for an identifier with
\* a path and for a bare one
C5_Witness ==
  \E p \in Procs :
    /\ proc[p].pc = "done" /\ proc[p].novaFlags = 0 /\ ~proc[p].repo
    /\ proc[p].module # proc[p].moduleBase
    /\ Cardinality(Tree(fs, proc[p].moduleBase)) = 3

\* the text of s up to its first line break
FirstLine(s) ==
  LET idx == { i \in 1..Len(s) : s[i] = "\n" }
  IN IF idx = {} THEN s
     ELSE SubSeq(s, 1, (CHOOSE i \in idx : \A j \in idx : i <= j) - 1)

\* the entries of workspace ws whose name is name
Named(f, ws, name) == { q \in Tree(f, ws) : q # ws /\ Base(q) = name }

\* what setUpGitRepo adds to the workspace ws
RepoPaths(ws) ==
  {Join(ws, gitDirName), Join(ws, gitignoreFileName), Join(ws, readmeFileName)}

\* C6: a successful run with a repository leaves in the workspace one
\* .gitignore whose content is the base name and one README.md whose first
\* line is "# " and the base name, adds nothing else but .git, and the
\* repository has exactly one commit, with the message "Initial commit".
C6_RepoFilesAndCommit ==
  \A p \in Procs :
    LET pr == proc[p]
        b == pr.moduleBase
        gi == Join(b, gitignoreFileName)
        rd == Join(b, readmeFileName) IN
    pr.pc = "done" /\ pr.repo =>
      /\ Named(fs, b, gitignoreFileName) = {gi}
      /\ fs[gi].kind = "file" /\ fs[gi].content = b
      /\ Named(fs, b, readmeFileName) = {rd}
      /\ fs[rd].kind = "file" /\ FirstLine(fs[rd].content) = <<"# ">> \o b
      /\ Tree(fs, b) \ ({b, Join(b, goModFileName)} \cup RequestedPaths(pr)) = RepoPaths(b)
      /\ b \in DOMAIN git
      /\ Len(git[b].commits) = 1
      /\ git[b].commits[1].message = "Initial commit"

\* a successful run with a repository
C6_Witness ==
  \E p \in Procs :
    /\ proc[p].pc = "done" /\ proc[p].repo
    /\ proc[p].module = <<"github.com", "/", "foo", "/", "bar">>
    /\ fs[<<"bar", "/", ".gitignore">>].content = <<"bar">>

\* the entry the store holds for destination path q of set src in workspace ws
StoreEntry(ws, src, q) ==
  LET i == CHOOSE i \in 1..Len(WalkDir(src)) :
             q = Join(ws, withoutFilepathPrefix(WalkDir(src)[i].path, Join(assetsDir, src)))
  IN WalkDir(src)[i]

SameAsStore(f, ws, src) ==
  \A q \in DstPaths(ws, src) :
    /\ Exists(f, q)
    /\ f[q].kind = (IF StoreEntry(ws, src, q).isDir THEN "dir" ELSE "file")
    /\ f[q].content = StoreEntry(ws, src, q).content

\* C7: after a successful run that asked for the nova set the workspace holds
\* go.mod, every entry of the default set and every entry of the nova set at
\* its relative path with the kind and content of the store, and apart from
\* these only what the repository adds.
C7_OptionalSetAdded ==
  \A p \in Procs :
    LET pr == proc[p]
        b == pr.moduleBase IN
    pr.pc = "done" /\ pr.novaFlags > 0 =>
      /\ Exists(fs, Join(b, goModFileName))
      /\ SameAsStore(fs, b, assetsDefaultDir)
      /\ SameAsStore(fs, b, novaDir)
      /\ Tree(fs, b) =
           {b, Join(b, goModFileName)}
             \cup DstPaths(b, assetsDefaultDir) \cup DstPaths(b, novaDir)
             \cup (IF pr.repo THEN RepoPaths(b) ELSE {})

\* a successful run with the nova set and no repository
C7_Witness ==
  \E p \in Procs :
    /\ proc[p].pc = "done" /\ proc[p].novaFlags > 0 /\ ~proc[p].repo
    /\ Exists(fs, Join(proc[p].moduleBase, <<".nova", "/", "Tasks", "/", "Go.json">>))
    /\ Cardinality(Tree(fs, proc[p].moduleBase)) = 6

\* C8: a run given the --nova flag more than once deploys the nova set once, as
\* a run given it once does: extraDirs is the one-element list, no entry of the
\* set is written twice, and a successful run leaves the workspace of C7.
C8_RepeatedSetIsOnce ==
  \A p \in Procs :
    LET pr == proc[p]
        b == pr.moduleBase IN
    pr.novaFlags >= 1 /\ pr.pc # "idle" /\ pr.failedAt # "usage" =>
      /\ pr.extraDirs = <<novaDir>>
      /\ \A q \in DstPaths(b, novaDir) :
           Cardinality({ i \in 1..Len(pr.ops) : pr.ops[i].arg = q }) <= 1
      /\ pr.pc = "failed" /\ pr.failedAt = "copy" /\ pr.ops[Len(pr.ops)].op = "Mkdir"
           => ~Exists(fs, pr.ops[Len(pr.ops)].arg)
      /\ pr.pc = "done" =>
           Tree(fs, b) \cap StorePaths(b) = DstPaths(b, assetsDefaultDir) \cup DstPaths(b, novaDir)

\* a successful run that was given the flag twice
C8_Witness ==
  \E p \in Procs :
    /\ proc[p].pc = "done" /\ proc[p].novaFlags = 2
    /\ Exists(fs, Join(proc[p].moduleBase, <<".nova", "/", "Tasks", "/", "Go.json">>))

\* an identifier with no separator
Bare(module) == FirstSep(module) = 0

createRemoteStep == "Create remote Git repository"
pushStep == "Push to remote Git repository: $ git push -u origin "
noteLine == "- NOTE: Unable to add remote for Git repository"

\* the calls of setUpGitRepo up to the commit were all made and succeeded
Committed(pr) ==
  /\ \A name \in {"git init", "git add", "git commit"} :
       \E i \in 1..Len(pr.ops) : pr.ops[i].op = name /\ pr.ops[i].ok
  /\ RepoPaths(pr.moduleBase) \subseteq DOMAIN pr.made
  /\ pr.moduleBase \in DOMAIN git
  /\ Len(git[pr.moduleBase].commits) = 1

\* what C9 says of a bare identifier apart from the next steps
BareRemoteSkipped(pr) ==
  /\ pr.failedAt # "gitRemote"
  /\ pr.pc \in {"gitBranch", "finish", "done"} =>
       /\ Committed(pr)
       /\ git[pr.moduleBase].remote = <<>>
       /\ ~\E i \in 1..Len(pr.ops) : pr.ops[i].op = "git remote add"
       /\ ~pr.quiet => /\ HasLine(pr.output, noteLine)
                       /\ ~HasLine(pr.output, "- Added remote for Git repository: ")

C10_BareNextSteps ==
  \A p \in Procs :
    LET pr == proc[p] IN
    pr.pc = "done" /\ pr.repo /\ Bare(pr.module) =>
      /\ ~pr.quiet => HasLine(pr.output, noteLine)
      /\ git[pr.moduleBase].remote = <<>>
      /\ \E i \in 1..(Len(pr.nextSteps) - 1) :
           /\ pr.nextSteps[i] = <<createRemoteStep>>
           /\ pr.nextSteps[i + 1][1] = pushStep
           /\ Len(pr.nextSteps[i + 1]) = 2
      /\ ~pr.quiet => \E i \in 1..(Len(pr.output) - 1) :
           /\ pr.output[i] = <<"- ", createRemoteStep>>
           /\ pr.output[i + 1][2] = pushStep

\* a non-quiet successful run with a repository for a bare identifier
C10_Witness ==
  \E p \in Procs :
    /\ proc[p].pc = "done" /\ proc[p].repo /\ Bare(proc[p].module) /\ ~proc[p].quiet
    /\ HasLine(proc[p].output, noteLine)
    /\ Len(proc[p].nextSteps) = 3

\* the calls of a run that create an entry, and the entries they created
Creating(o) == o.ok /\ o.op \in {"Mkdir", "WriteFile"}

CreatedBy(pr) ==
  { pr.ops[i].arg : i \in { j \in 1..Len(pr.ops) : Creating(pr.ops[j]) } }
    \cup (IF \E i \in 1..Len(pr.ops) : pr.ops[i].op = "go mod init" /\ pr.ops[i].ok
            THEN {Join(pr.moduleBase, goModFileName)} ELSE {})
    \cup (IF \E i \in 1..Len(pr.ops) : pr.ops[i].op = "git init" /\ pr.ops[i].ok
            THEN {Join(pr.moduleBase, gitDirName)} ELSE {})

\* the result of a run and its workspace as the outcomes of its calls give
\* them, whatever the quiet flag: the run fails exactly at a fatal outcome,
\* and the workspace holds what the calls that succeeded created
ResultFromCalls(pr) ==
  /\ pr.pc = "failed" <=>
       \/ pr.failedAt = "usage"
       \/ Len(pr.ops) > 0 /\ FatalFailure(pr.ops[Len(pr.ops)])
  /\ pr.pc = "done" => \A i \in 1..Len(pr.ops) : ~FatalFailure(pr.ops[i])
  /\ DOMAIN pr.made = CreatedBy(pr)
  /\ \A q \in DOMAIN pr.made : Exists(fs, q) /\ fs[q] = pr.made[q]
  /\ pr.repo /\ pr.pc = "done" => Committed(pr)
  /\ ~pr.repo => ~\E i \in 1..Len(pr.ops) : StepRank(pr, pr.ops[i]) >= 10

\* C11: quiet changes only the narration: a run with quiet set writes nothing
\* to the output stream, a run without it narrates, and in both the result
\* and the contents of workspace and repository are those the outcomes of
\* the calls give, with no dependence on the flag.
C11_QuietOnlyNarration ==
  \A p \in Procs :
    LET pr == proc[p] IN
    /\ pr.quiet => pr.output = <<>>
    /\ ~pr.quiet /\ pr.pc # "idle" /\ pr.failedAt # "usage" =>
         pr.output[1] = <<"Creating Go module: ">> \o pr.module
    /\ ResultFromCalls(pr)

\* a quiet run that set up a repository with a remote and succeeded
C11_Witness ==
  \E p \in Procs :
    /\ proc[p].quiet /\ proc[p].pc = "done" /\ proc[p].repo
    /\ proc[p].gitUrl # <<>> /\ proc[p].novaFlags > 0
    /\ proc[p].output = <<>>
    /\ Len(proc[p].nextSteps) = 3

\* C12 as stated: a failing run writes its error description to the error
\* stream, with quiet set as without it.
C12_Original ==
  \A p \in Procs :
    LET pr == proc[p] IN
    pr.exited /\ pr.pc = "failed" =>
      Len(pr.errorOutput) > 0 /\ pr.errorOutput[1] = pr.err

\* C12: a failing run without quiet writes its error description as the first
\* line of the error stream (a usage error adds one empty line); with quiet
\* set the same failure writes nothing to the error stream, and nothing is
\* written there before the run ends or by a run that succeeds.
C12_ErrorLineGatedByQuiet ==
  \A p \in Procs :
    LET pr == proc[p] IN
    /\ pr.exited /\ pr.pc = "failed" /\ ~pr.quiet =>
         /\ pr.err # <<>>
         /\ pr.errorOutput = (IF pr.failedAt = "usage" THEN <<pr.err, <<"">>>> ELSE <<pr.err>>)
    /\ pr.exited /\ pr.pc = "failed" /\ pr.quiet => pr.errorOutput = <<>>
    /\ ~pr.exited \/ pr.pc = "done" => pr.errorOutput = <<>>

\* a quiet run that failed in setUpGitRepo and ended with an empty error stream
C12_Witness ==
  \E p \in Procs :
    /\ proc[p].exited /\ proc[p].pc = "failed" /\ proc[p].quiet
    /\ proc[p].failedAt = "gitCommit"
    /\ proc[p].err # <<>> /\ proc[p].errorOutput = <<>>

\* a usage error of the Action: no module name, or more than one
ArgCountError(pr) ==
  pr.pc = "failed" /\ pr.failedAt = "usage" /\ Len(pr.args) # 1

\* what a quiet run given no module name or more than one shows and creates
QuietUsageErrorState(pr) ==
  pr.quiet /\ ArgCountError(pr) =>
    /\ pr.output = <<>> /\ pr.errorOutput = <<>>
    /\ ~HasLine(pr.output, helpOutput[1])
    /\ pr.made = << >> /\ pr.ops = <<>>
    /\ pr.exited => pr.exitCode = 1

\* C13: with quiet set, a run given no module name or more than one ends with
\* exit code 1, both streams empty (no error line, no help text), and without
\* having created anything: handling the error leaves every file as it was.
C13_QuietUsageError ==
  /\ [](\A p \in Procs : QuietUsageErrorState(proc[p]))
  /\ [][\A p \in Procs :
          proc[p].quiet /\ ArgCountError(proc[p]) /\ ~proc[p].exited /\ proc'[p].exited
            => fs' = fs /\ git' = git /\ proc'[p].exitCode = 1]_vars

\* a quiet run given two module names that has ended
C13_Witness ==
  \E p \in Procs :
    /\ proc[p].quiet /\ proc[p].exited /\ Len(proc[p].args) = 2
    /\ proc[p].exitCode = 1 /\ proc[p].errorOutput = <<>> /\ proc[p].output = <<>>

\* the steps of createModule a run can fail at
OrchestrationSteps ==
  {"mkdir", "gomod", "copy", "gitEmail", "gitName", "gitInit", "gitignore",
   "readme", "gitAdd", "gitCommit", "gitRemote"}

\* the run went through createModule to its end: the "Finished creating" line
\* stands for it in a run that narrates, the absence of a fatal outcome in all
Succeeded(pr) ==
  /\ pr.pc = "done"
  /\ pr.failedAt = "none" /\ pr.err = <<>>
  /\ \A i \in 1..Len(pr.ops) : ~FatalFailure(pr.ops[i])
  /\ ~pr.quiet => HasLine(pr.output, "Finished creating Go module: ")

\* C14: the exit code handler is called with 0 exactly when the run succeeded,
\* and with 1 after every usage error (no module name, more than one, unknown
\* flag) and after a failure of any step of createModule.
C14_ExitCode ==
  \A p \in Procs :
    LET pr == proc[p] IN
    pr.exited =>
      /\ pr.exitCode \in {0, 1}
      /\ pr.exitCode = 0 <=> Succeeded(pr)
      /\ pr.failedAt = "usage" => pr.exitCode = 1
      /\ pr.failedAt \in OrchestrationSteps => pr.exitCode = 1
      /\ pr.exitCode = 1 => pr.failedAt \in OrchestrationSteps \cup {"usage"}

\* a run that ended with 1 after the template deployment failed
C14_Witness ==
  \E p \in Procs :
    /\ proc[p].exited /\ proc[p].exitCode = 1
    /\ proc[p].failedAt = "copy" /\ ~proc[p].help

\* C15: the help text is written only by the exit handling of a usage error
\* (no module name, more than one, unknown flag); a run that failed in
\* createModule (workspace exists, a tool or the repository failed) reports
\* its error and no help; a usage error without quiet shows the help.
C15_HelpOnlyForUsageErrors ==
  \A p \in Procs :
    LET pr == proc[p]
        shown == HasLine(pr.output, helpOutput[1]) IN
    /\ shown => pr.exited /\ pr.pc = "failed" /\ pr.failedAt = "usage"
    /\ pr.exited /\ pr.failedAt \in OrchestrationSteps =>
         /\ ~shown /\ ~pr.help
         /\ ~pr.quiet => pr.errorOutput = <<pr.err>>
    /\ pr.exited /\ pr.failedAt = "usage" /\ ~pr.quiet =>
         shown /\ pr.output[Len(pr.output)] = helpOutput

\* a run without quiet whose workspace existed already: error, no help
C15_Witness ==
  \E p \in Procs :
    /\ proc[p].exited /\ proc[p].failedAt = "mkdir" /\ ~proc[p].quiet
    /\ proc[p].errorOutput = <<proc[p].err>>
    /\ ~HasLine(proc[p].output, helpOutput[1])

\* the three usage errors, by their error description
UsageErrors ==
  { <<"Error: Module name is required">>,
    <<"Error: Only one module name is allowed">>,
    <<"Error: Unknown flag">> }

\* C16: a run with a usage error (no module name, two or more, or an unknown
\* flag, with or without a module name) makes no call of a tool or of the
\* file system and creates nothing: it is over at once, and neither raising
\* the error nor handling it changes a file or a repository.
C16_UsageErrorCreatesNothing ==
  /\ [](\A p \in Procs :
          proc[p].err \in UsageErrors =>
            /\ proc[p].pc = "failed" /\ proc[p].failedAt = "usage"
            /\ proc[p].ops = <<>> /\ proc[p].made = << >>)
  /\ [][\A p \in Procs :
          proc'[p].err \in UsageErrors /\ proc'[p] # proc[p]
            => fs' = fs /\ git' = git]_vars

\* a run given an unknown flag and a module name, ended, its workspace absent
C16_Witness ==
  \E p \in Procs :
    /\ proc[p].exited /\ proc[p].err = <<"Error: Unknown flag">>
    /\ proc[p].args = << <<"github.com", "/", "foo", "/", "bar">> >>
    /\ ~Exists(fs, <<"bar">>)
    /\ proc[p].ops = <<>>

\* the narration line of a created directory or file
createdDirLine(path) == <<"- Created ", "directory", ": ">> \o path
createdFileLine(path) == <<"- Created ", "file     ", ": ">> \o path

\* the lines a successful run narrates up to its end, from its inputs: the
\* entries of the sets are those of the store, in its order
ExpectedNarration(pr) ==
  LET b == pr.moduleBase IN
  << <<"Creating Go module: ">> \o pr.module,
     createdDirLine(b),
     <<"- Initialized Go module">>,
     createdFileLine(b \o <<"/", "main.go">>) >>
  \o (IF pr.novaFlags > 0
        THEN << createdDirLine(b \o <<"/", ".nova">>),
                createdDirLine(b \o <<"/", ".nova", "/", "Tasks">>),
                createdFileLine(b \o <<"/", ".nova", "/", "Tasks", "/", "Go.json">>) >>
        ELSE <<>>)
  \o (IF pr.repo
        THEN << <<"- Initialized Git repository">>,
                createdFileLine(b \o <<"/", ".gitignore">>),
                createdFileLine(b \o <<"/", "README.md">>),
                <<"- Committed all files to Git repository">>,
                IF Bare(pr.module)
                  THEN <<noteLine>>
                  ELSE <<"- Added remote for Git repository: ">> \o pr.gitUrl >>
        ELSE <<>>)
  \o << <<"Finished creating Go module: ">> \o pr.module,
        <<"Next steps:">> >>
  \o [i \in 1..Len(pr.nextSteps) |-> <<"- ">> \o pr.nextSteps[i]]

IsPrefix(s, t) == Len(s) <= Len(t) /\ SubSeq(t, 1, Len(s)) = s

ExpectedRemote(module) ==
  LET seps == { i \in 1..Len(module) : module[i] = "/" }
      first == CHOOSE i \in seps : \A j \in seps : i <= j
  IN <<"git@">>
       \o [i \in 1..Len(module) |-> IF i = first THEN ":" ELSE module[i]]
       \o <<".git">>

\* C18: when the identifier holds a "/", the remote "origin" that is added is
\* "git@", the identifier with only its first "/" replaced by ":", and
\* ".git": github.com/foo/bar gives git@github.com:foo/bar.git; a successful
\* run with a repository has configured it.
C18_RemoteUrl ==
  \A p \in Procs :
    LET pr == proc[p]
        b == pr.moduleBase IN
    /\ \A i \in 1..Len(pr.ops) :
         pr.ops[i].op = "git remote add" =>
           /\ ~Bare(pr.module)
           /\ pr.ops[i].arg = ExpectedRemote(pr.module)
           /\ pr.module = <<"github.com", "/", "foo", "/", "bar">> =>
                pr.ops[i].arg = <<"git@", "github.com", ":", "foo", "/", "bar", ".git">>
           /\ pr.ops[i].ok => git[b].remote = pr.ops[i].arg /\ pr.gitUrl = pr.ops[i].arg
    /\ pr.pc = "done" /\ pr.repo /\ ~Bare(pr.module) =>
         git[b].remote = ExpectedRemote(pr.module)

\* a successful run for github.com/foo/bar whose repository has the remote
C18_Witness ==
  \E p \in Procs :
    /\ proc[p].pc = "done" /\ proc[p].repo
    /\ proc[p].module = <<"github.com", "/", "foo", "/", "bar">>
    /\ git[<<"bar">>].remote = <<"git@", "github.com", ":", "foo", "/", "bar", ".git">>

\* C19: after a successful run without quiet the next steps start with
\* "Change into your module's directory: $ cd <base name>" and "Run your
\* module: $ go run .", end with "Start coding: $ <editor> .", and with a
\* repository hold the create-remote step and then the push step in between.
C19_NextStepsShape ==
  \A p \in Procs :
    LET pr == proc[p]
        n == Len(pr.nextSteps) IN
    pr.pc = "done" /\ ~pr.quiet =>
      /\ n = (IF pr.repo THEN 5 ELSE 3)
      /\ pr.nextSteps[1] = <<"Change into your module's directory: $ cd ">> \o pr.moduleBase
      /\ pr.nextSteps[2] = <<"Run your module: $ go run .">>
      /\ pr.nextSteps[n][1] = "Start coding: $ "
      /\ pr.nextSteps[n][Len(pr.nextSteps[n])] = "."
      /\ pr.repo => /\ pr.nextSteps[3][1] = createRemoteStep
                    /\ pr.nextSteps[4][1] = pushStep

\* the editor the last next step names
EditorNamed(pr) == pr.nextSteps[Len(pr.nextSteps)][2]

\* C20: the last next step is the "Start coding" step, and the editor it
\* names is nova when the nova set was requested, whatever EDITOR holds,
\* otherwise the value of EDITOR when that is not empty, otherwise the
\* literal "$EDITOR"; with no quiet the step is the last line narrated.
C20_EditorPriority ==
  \A p \in Procs :
    LET pr == proc[p]
        n == Len(pr.nextSteps) IN
    pr.pc = "done" =>
      /\ n >= 1
      /\ pr.nextSteps[n][1] = "Start coding: $ "
      /\ \A i \in 1..(n - 1) : pr.nextSteps[i][1] # "Start coding: $ "
      /\ pr.novaFlags > 0 => EditorNamed(pr) = "nova"
      /\ pr.novaFlags = 0 /\ pr.editorEnv # "" => EditorNamed(pr) = pr.editorEnv
      /\ pr.novaFlags = 0 /\ pr.editorEnv = "" => EditorNamed(pr) = "$EDITOR"
      /\ ~pr.quiet /\ ~pr.exited => pr.output[Len(pr.output)] = <<"- ">> \o pr.nextSteps[n]

\* a successful run with the nova set requested while EDITOR is vim
C20_Witness ==
  \E p \in Procs :
    /\ proc[p].pc = "done" /\ proc[p].novaFlags > 0 /\ proc[p].editorEnv = "vim"
    /\ proc[p].nextSteps[Len(proc[p].nextSteps)][2] = "nova"

\* C21: a run that succeeds writes nothing to the error stream, whatever its
\* options (repository, nova set, quiet), before and after the exit handling.
C21_SuccessNoErrorOutput ==
  \A p \in Procs :
    proc[p].pc = "done" => proc[p].errorOutput = <<>> /\ proc[p].err = <<>>

\* a narrated successful run with every option, after the exit handling
C21_Witness ==
  \E p \in Procs :
    /\ proc[p].pc = "done" /\ proc[p].exited /\ proc[p].exitCode = 0
    /\ proc[p].repo /\ proc[p].novaFlags > 0 /\ ~proc[p].quiet
    /\ proc[p].errorOutput = <<>>

\* the error of a failed call of the file system or of a tool, as Go words it
Cause(o) ==
  IF o.op = "Mkdir" THEN <<"mkdir ">> \o o.arg
  ELSE IF o.op = "WriteFile" THEN <<"open ">> \o o.arg
  ELSE <<"exit status 1">>

CauseHeads == {"mkdir ", "open ", "exit status 1"}

\* what the Action puts before the error of createModule
ModuleContext(pr) == <<"Failed to create Go module: ">> \o pr.module \o <<": ">>

\* the part of the error description after the module context
AfterModuleContext(pr) == SubSeq(pr.err, Len(ModuleContext(pr)) + 1, Len(pr.err))

repoContext == "Failed to create as Git repository: "

PassedMkdir(pr) ==
  \E i \in 1..Len(pr.ops) : pr.ops[i] = Op("Mkdir", pr.moduleBase, TRUE)

\* the run called os.Mkdir for its workspace directory
TriedMkdir(pr) == Len(pr.ops) > 0

\* the paths a run wrote or tried to write: a write that failed may have left
\* an empty file
Written(pr) ==
  CreatedBy(pr) \cup
  { pr.ops[i].arg : i \in { j \in 1..Len(pr.ops) : pr.ops[j].op = "WriteFile" } }

\* C23: of two interleaved runs in one working directory that target the same
\* base name at most one creates the workspace directory; the other fails at
\* that step, having made no other call and created nothing, and every entry
\* of the workspace is one the winning run created, with the content it wrote.
C23_OneRunOwnsWorkspace ==
  \A p, q \in ConcProcs :
    LET w == proc[p]
        l == proc[q] IN
    p # q /\ w.moduleBase # <<>> /\ w.moduleBase = l.moduleBase =>
      /\ ~(PassedMkdir(w) /\ PassedMkdir(l))
      /\ PassedMkdir(w) /\ TriedMkdir(l) =>
           /\ l.pc = "failed" /\ l.failedAt = "mkdir"
           /\ l.ops = <<Op("Mkdir", l.moduleBase, FALSE)>>
           /\ l.made = << >>
      /\ PassedMkdir(w) =>
           \A x \in Tree(fs, w.moduleBase) :
             /\ x \in Written(w)
             /\ x \in DOMAIN w.made => fs[x] = w.made[x]
      /\ ~PassedMkdir(w) /\ ~PassedMkdir(l) => Tree(fs, w.moduleBase) = {}

\* two runs for identifiers with the base name bar: one succeeded with a
\* repository, the other called os.Mkdir after it and failed there
C23_Witness ==
  \E p, q \in ConcProcs :
    /\ p # q
    /\ proc[p].pc = "done" /\ proc[p].repo /\ proc[p].moduleBase = <<"bar">>
    /\ proc[q].pc = "failed" /\ proc[q].failedAt = "mkdir" /\ proc[q].exited
    /\ proc[q].moduleBase = <<"bar">> /\ proc[q].module # proc[p].module

\* C24: in a template deployment a directory is created before any entry below
\* it is written: every call that writes an entry under the workspace comes
\* after the successful os.Mkdir of its parent directory, every entry a step
\* adds has its parent directory in place before the step, and so no entry of
\* the working directory is ever without its parent.
C24_ParentBeforeChild ==
  /\ [](\A p \in Procs :
          LET pr == proc[p] IN
          /\ \A i \in 1..Len(pr.ops) :
               pr.ops[i].op \in {"Mkdir", "WriteFile"} /\ pr.ops[i].arg # pr.moduleBase =>
                 \E j \in 1..(i - 1) : pr.ops[j] = Op("Mkdir", Dir(pr.ops[i].arg), TRUE)
          /\ \A x \in DOMAIN fs : x \in {<<".">>, <<Sep>>} \/ IsDirAt(fs, Dir(x)))
  /\ [][\A x \in DOMAIN fs' \ DOMAIN fs : IsDirAt(fs, Dir(x))]_vars

\* the nova set deployed: Go.json written after Tasks after .nova
C24_Witness ==
  \E p \in Procs :
    LET o == proc[p].ops
        b == proc[p].moduleBase IN
    /\ proc[p].pc = "done"
    /\ \E i, j, k \in 1..Len(o) :
         /\ i < j /\ j < k
         /\ o[i] = Op("Mkdir", b \o <<"/", ".nova">>, TRUE)
         /\ o[j] = Op("Mkdir", b \o <<"/", ".nova", "/", "Tasks">>, TRUE)
         /\ o[k] = Op("WriteFile", b \o <<"/", ".nova", "/", "Tasks", "/", "Go.json">>, TRUE)

\* the calls of copyEmbeddedFS in the log of a process, and the last of them
DeployCalls(pr) == { i \in 1..Len(pr.ops) : pr.ops[i].op = "copyEmbeddedFS" }

LastDeployCall(pr) == CHOOSE i \in DeployCalls(pr) : \A j \in DeployCalls(pr) : j <= i

\* the file-system calls of the deploy that is running or ran last
SinceLastDeployCall(pr) == SubSeq(pr.ops, LastDeployCall(pr) + 1, Len(pr.ops))

\* the last call deploys a set that an earlier call deployed in full
DeployedBefore(pr) ==
  /\ DeployCalls(pr) # {}
  /\ \E i \in DeployCalls(pr) :
       /\ i < LastDeployCall(pr)
       /\ pr.ops[i].arg = pr.ops[LastDeployCall(pr)].arg
       /\ \A k \in 1..Len(WalkDir(pr.ops[i].arg)) :
            pr.ops[i + k].op # "copyEmbeddedFS" /\ pr.ops[i + k].ok

\* C25 as stated: a second deploy of any set, the default set included, into
\* the same destination does not succeed and overwrites nothing: each call it
\* makes is an os.Mkdir that fails.
C25_Original ==
  \A p \in Procs :
    LET pr == proc[p]
        since == SinceLastDeployCall(pr) IN
    DeployedBefore(pr) =>
      /\ pr.pc # "deployed"
      /\ \A i \in 1..Len(since) : since[i].op = "Mkdir" /\ ~since[i].ok

\* C25: a second deploy of the nova set into the same destination fails at
\* its first root-level entry, the directory .nova, with the error of os.Mkdir
\* and changes nothing; a second deploy of the default set, whose only entry
\* is the file main.go, meets no such error: its only call writes main.go
\* again, and when it returns nil main.go has the content of the store.
C25_SecondDeploy ==
  \A p \in Procs :
    LET pr == proc[p]
        dst == pr.moduleBase
        since == SinceLastDeployCall(pr) IN
    DeployedBefore(pr) =>
      IF pr.ops[LastDeployCall(pr)].arg = novaDir
        THEN /\ pr.pc # "deployed"
             /\ since \in {<<>>, <<Op("Mkdir", dst \o <<"/", ".nova">>, FALSE)>>}
             /\ since # <<>> =>
                  /\ pr.pc = "failed"
                  /\ AfterModuleContext(pr) = <<"mkdir ">> \o dst \o <<"/", ".nova">>
             /\ SameAsStore(fs, dst, novaDir)
        ELSE /\ \A i \in 1..Len(since) :
                  since[i].op = "WriteFile" /\ since[i].arg = dst \o <<"/", "main.go">>
             /\ Len(since) <= 1
             /\ pr.pc = "deployed" => since[1].ok /\ SameAsStore(fs, dst, assetsDefaultDir)

\* the nova set deployed in full and then again: the second deploy has failed
\* at .nova, and the entries of the first are in place
C25_Witness ==
  \E p \in Procs :
    /\ DeployedBefore(proc[p])
    /\ proc[p].pc = "failed"
    /\ proc[p].ops[Len(proc[p].ops)] = Op("Mkdir", <<"bar", "/", ".nova">>, FALSE)
    /\ fs[<<"bar", "/", ".nova", "/", "Tasks", "/", "Go.json">>].content = <<"novaTaskContents">>

\* the calls of a run that write an entry of a template set
IsDeployCall(pr, o) == o.op \in {"Mkdir", "WriteFile"} /\ o.arg \in RequestedPaths(pr)

\* C26: when a write of a template deployment fails, the deployment stops at
\* that entry and the run fails with the error of that write: the failed call
\* is the last call of the run, no entry after it in the set and no entry of
\* a later set is in the workspace, and every entry the run had created before
\* is still there, as it was written.
C26_WriteFailureAborts ==
  \A p \in Procs :
    LET pr == proc[p]
        n == Len(pr.ops)
        entries == WalkDir(CurrentSet(pr)) IN
    \A i \in 1..n :
      IsDeployCall(pr, pr.ops[i]) /\ ~pr.ops[i].ok =>
        /\ i = n
        /\ pr.pc = "failed" /\ pr.failedAt = "copy"
        /\ AfterModuleContext(pr) = Cause(pr.ops[n])
        /\ \A k \in (pr.entry + 1)..Len(entries) :
             ~Exists(fs, Join(pr.moduleBase,
                              withoutFilepathPrefix(entries[k].path,
                                                    Join(assetsDir, CurrentSet(pr)))))
        /\ \A k \in (pr.set + 1)..Len(pr.extraDirs) :
             DstPaths(pr.moduleBase, pr.extraDirs[k]) \cap DOMAIN fs = {}
        /\ ~pr.repo \/ RepoPaths(pr.moduleBase) \cap DOMAIN fs = {}
        /\ pr.moduleBase \in DOMAIN pr.made
        /\ \A q \in DOMAIN pr.made : Exists(fs, q) /\ fs[q] = pr.made[q]

\* the nova set failed at its second directory: .nova and main.go are in
\* place, Tasks and Go.json are not
C26_Witness ==
  \E p \in Procs :
    /\ proc[p].failedAt = "copy"
    /\ proc[p].ops[Len(proc[p].ops)] = Op("Mkdir", <<"bar", "/", ".nova", "/", "Tasks">>, FALSE)
    /\ IsDirAt(fs, <<"bar", "/", ".nova">>)
    /\ Exists(fs, <<"bar", "/", "main.go">>)
    /\ ~Exists(fs, <<"bar", "/", ".nova", "/", "Tasks", "/", "Go.json">>)

\* the calls of setUpGitRepo after the two identity queries
IsRepoStep(pr, o) ==
  \/ o.op \in {"git init", "git add", "git commit", "git remote add", "git symbolic-ref"}
  \/ o.op = "WriteFile" /\ o.arg \in RepoPaths(pr.moduleBase)

\* C27: setUpGitRepo queries user.email and then user.name before any other
\* step: every other repository call comes after both queries returned a
\* value, and a run in which a query fails or prints no value ends there,
\* with no .git, .gitignore or README.md in the workspace, no repository for
\* it, and nothing staged or committed.
C27_IdentityCheckedFirst ==
  \A p \in Procs :
    LET pr == proc[p]
        o == pr.ops
        b == pr.moduleBase IN
    /\ \A i \in 1..Len(o) :
         IsRepoStep(pr, o[i]) =>
           \E j, k \in 1..(i - 1) :
             /\ j < k
             /\ o[j] = Op("git config", <<"user.email", "value">>, TRUE)
             /\ o[k] = Op("git config", <<"user.name", "value">>, TRUE)
    /\ \A i \in 1..Len(o) :
         o[i].op = "git config" /\ o[i].arg[2] # "value" =>
           /\ i = Len(o)
           /\ pr.pc = "failed" /\ pr.failedAt \in {"gitEmail", "gitName"}
           /\ RepoPaths(b) \cap DOMAIN fs = {}
           /\ b \notin DOMAIN git
           /\ \A j \in 1..Len(o) : ~IsRepoStep(pr, o[j])

\* a run that found user.email set and user.name blank: no repository
C27_Witness ==
  \E p \in Procs :
    /\ proc[p].failedAt = "gitName" /\ proc[p].moduleBase = <<"bar">>
    /\ proc[p].ops[Len(proc[p].ops)] = Op("git config", <<"user.name", "blank">>, TRUE)
    /\ Exists(fs, <<"bar", "/", "main.go">>)
    /\ ~Exists(fs, <<"bar", "/", ".git">>)

\* the outcomes of `git config --global <key>` in which the key is not
\* configured: the key is absent (git exits with 1 and prints nothing) or its
\* value is blank
NotConfigured == {"unset", "blank"}

\* C28: whenever user.email or user.name is not configured, setUpGitRepo
\* fails with the error that names the setting that must be set, never with
\* the "Failed to look up" message of a query that failed.
C28_ConfigErrorNamesSetting ==
  \A p \in Procs :
    LET pr == proc[p]
        n == Len(pr.ops)
        rest == AfterModuleContext(pr) IN
    n > 0 /\ pr.ops[n].op = "git config" /\ pr.ops[n].arg[2] \in NotConfigured =>
      /\ pr.pc = "failed"
      /\ rest = <<repoContext, "git config --global ", pr.ops[n].arg[1], " must be set">>
      /\ rest[2] # "Failed to look up Git "

\* the labels of the repository steps with a diagnosis of their own
initLabel == "Failed to initialize Git repository"
stageLabel == "Failed to stage files for Git commit"
commitLabel == "Failed to commit files into Git repository"

\* the call each label belongs to
LabelledStep(label) ==
  IF label = initLabel THEN "git init"
  ELSE IF label = stageLabel THEN "git add"
  ELSE "git commit"

\* C29: the errors for a failed init, a failed staging and a failed commit
\* are pairwise different, each of the three steps fails with its own label,
\* and a label is reported only when its own step failed, never for the
\* failure of another step such as adding the remote.
C29_LabelNamesItsStep ==
  /\ initLabel # stageLabel /\ stageLabel # commitLabel /\ initLabel # commitLabel
  /\ \A p \in Procs :
       LET pr == proc[p]
           last == pr.ops[Len(pr.ops)]
           rest == AfterModuleContext(pr) IN
       pr.pc = "failed" /\ pr.failedAt \in OrchestrationSteps =>
         \A label \in {initLabel, stageLabel, commitLabel} :
           /\ last.op = LabelledStep(label) => rest = <<repoContext, label>>
           /\ (\E i \in 1..Len(pr.err) : pr.err[i] = label) => last.op = LabelledStep(label)

\* the steps of setUpGitRepo a run can fail at, and the call that fails there
RepoSteps ==
  {"gitEmail", "gitName", "gitInit", "gitignore", "readme", "gitAdd", "gitCommit",
   "gitRemote"}

FailingCall(step) ==
  IF step \in {"gitEmail", "gitName"} THEN "git config"
  ELSE IF step = "gitInit" THEN "git init"
  ELSE IF step \in {"gitignore", "readme"} THEN "WriteFile"
  ELSE IF step = "gitAdd" THEN "git add"
  ELSE IF step = "gitCommit" THEN "git commit"
  ELSE "git remote add"

\* the run entered setUpGitRepo
EnteredRepo(pr) == \E i \in 1..Len(pr.ops) : pr.ops[i].op = "git config"

\* C30 as stated: setUpGitRepo ends committed or failed with one of the kinds
\* identity missing, init failed, stage failed, commit failed; nothing else
\* ends it, and the remote step never fails the run.
C30_Original ==
  \A p \in Procs :
    LET pr == proc[p] IN
    EnteredRepo(pr) /\ pr.pc = "failed" =>
      /\ pr.failedAt \in {"gitEmail", "gitName", "gitInit", "gitAdd", "gitCommit"}
      /\ pr.ops[Len(pr.ops)].op # "git remote add"

\* C30: setUpGitRepo ends either committed, with the create-remote step and
\* the push step in the next steps, or failed at one of: an identity query,
\* git init, the write of .gitignore or README.md, git add, git commit, or
\* git remote add; the failed call is the last call of the run.  Only an
\* identifier from which no remote can be derived is no failure: it changes
\* the narration and the next steps alone.
C30_RepoTerminalStates ==
  \A p \in Procs :
    LET pr == proc[p]
        last == pr.ops[Len(pr.ops)] IN
    EnteredRepo(pr) =>
      /\ pr.pc \in {"finish", "done"} =>
           /\ Committed(pr)
           /\ Len(pr.nextSteps) >= 2
           /\ pr.nextSteps[1][1] = createRemoteStep
           /\ pr.nextSteps[2][1] = pushStep
           /\ Bare(pr.module) =>
                /\ git[pr.moduleBase].remote = <<>>
                /\ pr.nextSteps[1] = <<createRemoteStep>>
                /\ ~pr.quiet => HasLine(pr.output, noteLine)
      /\ pr.pc = "failed" =>
           /\ pr.failedAt \in RepoSteps
           /\ last.op = FailingCall(pr.failedAt)
           /\ FatalFailure(last)
           /\ pr.failedAt = "gitRemote" => ~Bare(pr.module)

\* a run that committed and then failed at git remote add
C30_Witness ==
  \E p \in Procs :
    /\ proc[p].pc = "failed" /\ proc[p].failedAt = "gitRemote" /\ proc[p].exited
    /\ Len(git[proc[p].moduleBase].commits) = 1
    /\ git[proc[p].moduleBase].remote = <<>>

\* the host of a remote URL git@<host>:<path>.git
RemoteHost(gitUrl) == gitUrl[2]

githubHint == ": https://github.com/new"

\* C31: the create-remote next step ends with the hint
\* ": https://github.com/new" exactly when the host of the remote is
\* github.com; for every other host it is the step text and the URL alone.
C31_HintOnlyForGithubHost ==
  \A p \in Procs :
    LET pr == proc[p]
        step == pr.nextSteps[1] IN
    pr.repo /\ pr.gitUrl # <<>> /\ Len(pr.nextSteps) >= 1 =>
      /\ RemoteHost(pr.gitUrl) = "github.com" =>
           step = <<createRemoteStep, " ">> \o pr.gitUrl \o <<githubHint>>
      /\ RemoteHost(pr.gitUrl) # "github.com" =>
           step = <<createRemoteStep, " ">> \o pr.gitUrl

branchPlaceholder == "$(git branch --show-current)"

\* the call of a run with the given name, when it made one
CallOf(pr, name) == pr.ops[CHOOSE i \in 1..Len(pr.ops) : pr.ops[i].op = name]

\* C32: the push next step names the branch the repository is on, which is
\* the initial branch passed to git init when one was passed and the default
\* branch of git otherwise; when the branch query fails, the step names the
\* placeholder "$(git branch --show-current)", and the run does not fail.
C32_PushStepBranch ==
  \A p \in Procs :
    LET pr == proc[p]
        b == pr.moduleBase IN
    (\E i \in 1..Len(pr.ops) : pr.ops[i].op = "git symbolic-ref") =>
      LET query == CallOf(pr, "git symbolic-ref")
          init == CallOf(pr, "git init") IN
      /\ pr.pc \in {"finish", "done"}
      /\ Len(pr.nextSteps) >= 2
      /\ query.ok =>
           /\ pr.nextSteps[2] = <<pushStep, git[b].branch>>
           /\ init.arg # <<"nil">> => git[b].branch = init.arg[1]
           /\ init.arg = <<"nil">> => git[b].branch = gitDefaultBranch
      /\ ~query.ok => pr.nextSteps[2] = <<pushStep, branchPlaceholder>>

\* a run built with the initial branch main whose push step names main
C32_Witness ==
  \E p \in Procs :
    /\ proc[p].pc = "done" /\ proc[p].repo
    /\ \E i \in 1..Len(proc[p].ops) : proc[p].ops[i] = Op("git init", <<"main">>, TRUE)
    /\ proc[p].nextSteps[2] = <<pushStep, "main">>

\* the files of workspace ws outside its repository directory
WorkspaceFiles(f, ws) ==
  { q \in Tree(f, ws) : f[q].kind = "file" /\ ~Under(q, Join(ws, gitDirName)) }

\* C33: once a run has committed, the tree of the initial commit holds every
\* file of the workspace (go.mod, the deployed template files, .gitignore and
\* README.md) with the content it has on disk, for every module identifier:
\* no file of the workspace is left out of the commit or changed after it.
C33_CommitHoldsWorkspace ==
  \A p \in Procs :
    LET pr == proc[p]
        ws == pr.moduleBase IN
    Committed(pr) =>
      /\ {Join(ws, goModFileName), Join(ws, gitignoreFileName),
          Join(ws, readmeFileName)} \subseteq WorkspaceFiles(fs, ws)
      /\ git[ws].commits[1].tree =
           [q \in WorkspaceFiles(fs, ws) |-> fs[q].content]

\* the kind of entry a 'Created' line names
CreatedKind(line) == IF line[2] = "directory" THEN "dir" ELSE "file"

\* the path a 'Created' line names
CreatedPath(line) == SubSeq(line, 4, Len(line))

\* the lines of the output that report the creation of path
CreatedLines(output, path) ==
  { j \in 1..Len(output) :
      output[j][1] = "- Created " /\ CreatedPath(output[j]) = path }

\* C34: in a non-quiet run every 'Created' line names an entry that exists at
\* that path with that kind, and every directory or file the run has created
\* by Mkdir or WriteFile (the entries of the deployed sets among them) has
\* exactly one such line.
C34_OneCreatedLinePerEntry ==
  \A p \in Procs :
    LET pr == proc[p] IN
    ~pr.quiet =>
      /\ \A j \in 1..Len(pr.output) :
           pr.output[j][1] = "- Created " =>
             /\ Exists(fs, CreatedPath(pr.output[j]))
             /\ fs[CreatedPath(pr.output[j])].kind = CreatedKind(pr.output[j])
      /\ \A i \in 1..Len(pr.ops) :
           Creating(pr.ops[i]) =>
             Cardinality(CreatedLines(pr.output, pr.ops[i].arg)) = 1

\* a non-quiet run that has deployed the whole default set and the optional set
C34_Witness ==
  \E p \in Procs :
    /\ ~proc[p].quiet /\ proc[p].pc = "done"
    /\ StorePaths(proc[p].moduleBase) \subseteq DOMAIN proc[p].made
    /\ \A q \in StorePaths(proc[p].moduleBase) :
         Cardinality(CreatedLines(proc[p].output, q)) = 1

Terminal(pr) == pr.pc \in {"done", "failed"}

\* C35: when every call returns, a started run reaches a terminal state
\* (done or failed); and a started run that has not reached one changes only
\* by the return of the call it is at: there is no timeout and no
\* cancellation that would move it on while the call has not returned.
C35_Terminates ==
  /\ \A p \in Procs : Running(proc[p]) ~> Terminal(proc[p])
  /\ [][\A p \in Procs :
          Running(proc[p]) /\ proc'[p] # proc[p] => Return(p)]_vars

\* a run that went through every step of createModule and setUpGitRepo
C35_Witness ==
  \E p \in Procs :
    /\ proc[p].pc = "done" /\ proc[p].repo /\ proc[p].gitUrl # <<>>
    /\ proc[p].exited
    /\ \E i \in 1..Len(proc[p].ops) : proc[p].ops[i].op = "git symbolic-ref"

\* the template set whose destination paths in workspace ws include q
SetOf(ws, q) == IF q \in DstPaths(ws, novaDir) THEN novaDir ELSE assetsDefaultDir

\* the writes of template files the run has made
StoreWrites(pr) ==
  { pr.ops[i].arg : i \in { j \in 1..Len(pr.ops) :
      /\ pr.ops[j].op = "WriteFile" /\ pr.ops[j].ok
      /\ pr.ops[j].arg \in StorePaths(pr.moduleBase) } }

\* C36 as stated: a written template file has the byte content and the
\* permission bits of its entry in the store.
C36_Original ==
  \A p \in Procs :
    \A q \in StoreWrites(proc[p]) :
      LET e == StoreEntry(proc[p].moduleBase, SetOf(proc[p].moduleBase, q), q) IN
      /\ fs[q].content = e.content
      /\ fs[q].perm = embedMode(e)

\* C36 (amended): a written template file has exactly the byte content of its
\* entry in the store and the permission bits 0644 the deployer asks for,
\* whatever bits the entry has in the store.
C36_ContentAndFixedMode ==
  \A p \in Procs :
    \A q \in StoreWrites(proc[p]) :
      LET e == StoreEntry(proc[p].moduleBase, SetOf(proc[p].moduleBase, q), q) IN
      /\ fs[q].kind = "file"
      /\ fs[q].content = e.content
      /\ fs[q].perm = "0644"

\* a finished run that wrote the template file of each set
C36_Witness ==
  \E p \in Procs :
    /\ proc[p].pc = "done"
    /\ Cardinality(StoreWrites(proc[p])) = 2
    /\ \A q \in StoreWrites(proc[p]) :
         fs[q].perm = "0644" /\ fs[q].content # <<>>

\* the paths whose entry a step adds, changes or removes
Touched(f, g) ==
  { q \in DOMAIN f \cup DOMAIN g :
      \/ q \notin DOMAIN f
      \/ q \notin DOMAIN g
      \/ f[q] # g[q] }

\* C37: every step of a run adds, changes or removes only entries inside the
\* workspace directory of that run (the directory itself included), whether
\* the step succeeds or fails; every other entry of the working directory is
\* left as it was.
C37_OnlyWorkspaceTouched ==
  [][\A q \in Touched(fs, fs') :
       \E p \in Procs : Running(proc[p]) /\ Under(q, proc[p].moduleBase)]_vars

\* a run that failed at the commit, after it filled its workspace, with nothing
\* outside the workspace but the working directory and the root
C37_Witness ==
  \E p \in Procs :
    /\ proc[p].pc = "failed" /\ proc[p].failedAt = "gitCommit"
    /\ Join(proc[p].moduleBase, readmeFileName) \in DOMAIN proc[p].made
    /\ \A q \in DOMAIN fs \ {<<".">>, <<Sep>>} : Under(q, proc[p].moduleBase)

finishedLine == "Finished creating Go module: "

\* the positions of the 'Finished creating Go module' line in an output
FinishedAt(output) == { j \in 1..Len(output) : output[j][1] = finishedLine }

\* C38: whenever the 'Finished creating Go module' line is in the output, the
\* run is done without a failure and its workspace holds go.mod, every entry
\* of the default set and of each requested optional set and, when a
\* repository was requested, the initial commit; and a non-quiet run that is
\* done has the line exactly once, followed by 'Next steps:' and at least one
\* next step.
C38_FinishedOnlyOnSuccess ==
  \A p \in Procs :
    LET pr == proc[p]
        ws == pr.moduleBase
        fin == FinishedAt(pr.output) IN
    /\ fin # {} =>
         /\ pr.pc = "done" /\ pr.err = <<>>
         /\ Exists(fs, Join(ws, goModFileName))
         /\ SameAsStore(fs, ws, assetsDefaultDir)
         /\ \A k \in 1..Len(pr.extraDirs) : SameAsStore(fs, ws, pr.extraDirs[k])
         /\ pr.repo => Committed(pr)
    /\ pr.pc = "done" /\ ~pr.quiet =>
         /\ Cardinality(fin) = 1
         /\ \A j \in fin :
              /\ Len(pr.output) >= j + 2
              /\ pr.output[j + 1] = <<"Next steps:">>
              /\ pr.output[j + 2][1] = "- "

\* a non-quiet run with the optional set and a repository that narrated the line
C38_Witness ==
  \E p \in Procs :
    /\ proc[p].pc = "done" /\ ~proc[p].quiet
    /\ proc[p].repo /\ proc[p].novaFlags > 0
    /\ FinishedAt(proc[p].output) # {}

\* the writers an app can be built with: the standard streams of the process
\* and two buffers of a caller
Writers == {"os.Stdout", "os.Stderr", "outputBuffer", "errorOutputBuffer"}

\* AppWithCustomEverything: narration and help are written to output, error
\* descriptions to errorOutput
AppWithCustomEverything(output, errorOutput) ==
  [Writer |-> output, ErrWriter |-> errorOutput]

\* AppWithCustomOutput: builds the app with the standard streams, whatever
\* writers it is given
AppWithCustomOutput(output, errorOutput) ==
  AppWithCustomEverything("os.Stdout", "os.Stderr")

\* what the run pr of app has written to the writer w
Delivered(app, w, pr) ==
  (IF app.Writer = w THEN pr.output ELSE <<>>)
    \o (IF app.ErrWriter = w THEN pr.errorOutput ELSE <<>>)

\* C39: an app built by AppWithCustomOutput with two writers of the caller
\* delivers what a run writes as the app built by AppWithCustomEverything with
\* the same writers does: narration and help to the output writer, error
\* descriptions to the errorOutput writer, nothing to the standard streams.
C39_CustomOutputUsesWriters ==
  \A p \in Procs :
    \A o, e \in Writers \ {"os.Stdout", "os.Stderr"} :
      o # e =>
        LET app == AppWithCustomOutput(o, e) IN
        /\ \A w \in Writers :
             Delivered(app, w, proc[p]) =
               Delivered(AppWithCustomEverything(o, e), w, proc[p])
        /\ Delivered(app, o, proc[p]) = proc[p].output
        /\ Delivered(app, e, proc[p]) = proc[p].errorOutput
        /\ Delivered(app, "os.Stdout", proc[p]) = <<>>
        /\ Delivered(app, "os.Stderr", proc[p]) = <<>>

====
